---- MODULE Spec2Model ----
(***************************************************************************)
(* The folder-icon reconciler of set_folder_icon.py (get_ico_sizes,         *)
(* set_folder_icon, process_single_folder, apply_folder_icon, main) and    *)
(* the window of png_to_ico.py: its folder-icon tab, its batch conversion  *)
(* and its favicon-set generation.                                         *)
(*                                                                         *)
(* The file system is one target directory, its immediate children and a   *)
(* directory nested in a child, and the directory the window writes its    *)
(* output to.                                                              *)
(* The imaging library and the attrib executable are external: the library *)
(* is modelled by the contract the code relies on (open exposes the frames *)
(* of an ICO, save embeds the sizes it is given, either may raise), attrib *)
(* by its exit code or the error subprocess.run raises.                    *)
(***************************************************************************)
EXTENDS Integers, Sequences, FiniteSets, TLC

VARIABLES
    platform,   \* sys.platform
    pillow,     \* TRUE iff "from PIL import Image" succeeded (Image is not None)
    tree,       \* the target directory and its immediate children
    last,       \* the last invocation of main: arguments, result, calls made
    prev,       \* what the invocation before the last one was
    gui,        \* the folder-icon tab of the window and its last run
    icotab,     \* the PNG-to-ICO tab: the selection and the last conversion
    favtab,     \* the favicon tab: source, prefix and the last generation
    disk        \* the files in the output directory, by name

vars == <<platform, pillow, tree, last, prev, gui, icotab, favtab, disk>>

----------------------------------------------------------------------------
(* Bounds of the model *)

\* largest number of immediate children of the target directory
MaxSub == 2

\* largest number of files selected for one batch conversion
MaxBatch == 2

\* largest number of characters typed into the prefix entry
MaxPrefix == 2

----------------------------------------------------------------------------
(* Constants of the program *)

REQUIRED_FOLDER_ICO_SIZES == {16, 32, 48, 256}

FOLDER_ICO_SIZES_required_only ==
    << <<16, 16>>, <<32, 32>>, <<48, 48>>, <<256, 256>> >>

FOLDER_ICO_SIZES ==
    << <<16, 16>>, <<32, 32>>, <<48, 48>>, <<64, 64>>, <<128, 128>>, <<256, 256>> >>

\* errors[:5] in the summary
SummaryLimit == 5

----------------------------------------------------------------------------
(* Paths: a pathlib.Path is its sequence of parts.  "." parts are dropped  *)
(* by Path() itself, ".." parts are kept until resolve().                  *)

Drive == "C:\\"
Cwd == <<Drive, "icons">>
None == <<>>

IsAbsolute(p) == Len(p) > 0 /\ p[1] = Drive

\* Path.name: the final component, "" when there is none
PathName(p) == IF Len(p) = 0 \/ (Len(p) = 1 /\ IsAbsolute(p)) THEN "" ELSE p[Len(p)]

RECURSIVE Normalize(_, _)
Normalize(done, rest) ==
    IF rest = <<>> THEN done
    ELSE IF Head(rest) = ".."
         THEN Normalize(IF Len(done) > 1 THEN SubSeq(done, 1, Len(done) - 1) ELSE done,
                        Tail(rest))
         ELSE Normalize(Append(done, Head(rest)), Tail(rest))

\* Path.resolve(): absolute, with every ".." eliminated
Resolve(p) == Normalize(<<>>, IF IsAbsolute(p) THEN p ELSE Cwd \o p)

----------------------------------------------------------------------------
(* Files *)

NoIco == [exists |-> FALSE, readable |-> FALSE, has_n_frames |-> FALSE,
          n_frames |-> 0, frames |-> <<>>]

\* an ICO container holding the given frames, as Image.open presents it
IcoOf(frames) == [exists |-> TRUE, readable |-> TRUE, has_n_frames |-> TRUE,
                  n_frames |-> Len(frames), frames |-> frames]

\* a single-image ICO whose image object has no n_frames attribute
SingleIco(w) == [exists |-> TRUE, readable |-> TRUE, has_n_frames |-> FALSE,
                 n_frames |-> 0, frames |-> << <<w, w>> >>]

\* a file named folder.ico that Image.open cannot read
BrokenIco == [exists |-> TRUE, readable |-> FALSE, has_n_frames |-> FALSE,
              n_frames |-> 0, frames |-> <<>>]

NoIni == [exists |-> FALSE, content |-> <<>>, attrs |-> {}]

IniText_without_index(icon_ref) == <<"[.ShellClassInfo]\n", "IconResource=", icon_ref, "\n">>

IniText(icon_ref) == <<"[.ShellClassInfo]\n", "IconResource=", icon_ref, ",0\n">>

Sites == {"clear", "sys", "hide"}
Raises == {"perm", "err"}

NoFault == [write |-> "ok", attrib |-> [s \in Sites |-> "rc0"]]

NoDir == [ico |-> NoIco, png |-> "none", ini |-> NoIni, sys |-> FALSE, env |-> NoFault]

\* an empty directory
NoTree == [root |-> NoDir, kids |-> <<>>, listable |-> TRUE]

----------------------------------------------------------------------------
(* Results *)

True == [ok |-> TRUE, msg |-> <<>>]
Failure(msg) == [ok |-> FALSE, msg |-> msg]

\* str(e) of the error a call raised
StrOf(what) ==
    CASE what = "write"  -> "[Errno 28] No space left on device"
      [] what = "attrib" -> "[WinError 2] The system cannot find the file specified"
      [] what = "open"   -> "cannot identify image file"
      [] OTHER           -> "broken data stream when reading image file"

Event(op, out, arg, ico) == [op |-> op, out |-> out, arg |-> arg, ico |-> ico]

----------------------------------------------------------------------------
(* get_ico_sizes: the set of widths Image.open shows for folder.ico.       *)
(* Any error while reading (and a missing Pillow) gives the empty set.     *)

\* reads the width of the current frame only
get_ico_sizes_current_frame(ico) ==
    IF ~pillow THEN {}
    ELSE IF ~ico.readable THEN {}
    ELSE { ico.frames[1][1] }

\* an ICO that cannot be read taken for one with every required width
get_ico_sizes_unreadable_complete(ico) ==
    IF ~pillow THEN {}
    ELSE IF ~ico.readable THEN REQUIRED_FOLDER_ICO_SIZES
    ELSE IF ico.has_n_frames /\ ico.n_frames > 1
         THEN { ico.frames[i][1] : i \in 1..ico.n_frames }
         ELSE { ico.frames[1][1] }

get_ico_sizes(ico) ==
    IF ~pillow THEN {}
    ELSE IF ~ico.readable THEN {}
    ELSE IF ico.has_n_frames /\ ico.n_frames > 1
         THEN { ico.frames[i][1] : i \in 1..ico.n_frames }
         ELSE { ico.frames[1][1] }

----------------------------------------------------------------------------
(* img = Image.open(png_path); img.save(ico_path, format='ICO', sizes=...) *)
(* png = "ok": both calls succeed and folder.ico holds the sizes asked for.*)
(* png = "bad_save": save raises after it truncated folder.ico.            *)
(* otherwise ("bad_open", or no file): Image.open raises, nothing is       *)
(* touched.                                                                *)

\* the conversion, were its errors swallowed (try: ... except: pass)
ConvertPng_swallowed(d, sizes) ==
    CASE d.png = "ok" ->
           [raised |-> FALSE, msg |-> "",
            ico |-> IcoOf(sizes),
            log |-> <<Event("open folder.png", "ok", <<>>, d.ico.exists),
                      Event("save folder.ico", "ok", sizes, TRUE)>>]
      [] d.png = "bad_save" ->
           [raised |-> FALSE, msg |-> "",
            ico |-> BrokenIco,
            log |-> <<Event("open folder.png", "ok", <<>>, d.ico.exists),
                      Event("save folder.ico", "err", sizes, TRUE)>>]
      [] OTHER ->
           [raised |-> FALSE, msg |-> "",
            ico |-> d.ico,
            log |-> <<Event("open folder.png", "err", <<>>, d.ico.exists)>>]

ConvertPng(d, sizes) ==
    CASE d.png = "ok" ->
           [raised |-> FALSE, msg |-> "",
            ico |-> IcoOf(sizes),
            log |-> <<Event("open folder.png", "ok", <<>>, d.ico.exists),
                      Event("save folder.ico", "ok", sizes, TRUE)>>]
      [] d.png = "bad_save" ->
           [raised |-> TRUE, msg |-> StrOf("save"),
            ico |-> BrokenIco,
            log |-> <<Event("open folder.png", "ok", <<>>, d.ico.exists),
                      Event("save folder.ico", "err", sizes, TRUE)>>]
      [] OTHER ->
           [raised |-> TRUE, msg |-> StrOf("open"),
            ico |-> d.ico,
            log |-> <<Event("open folder.png", "err", <<>>, d.ico.exists)>>]

----------------------------------------------------------------------------
(* set_folder_icon: clear the attributes of an existing desktop.ini, write *)
(* desktop.ini, attrib +s the folder, attrib +s +h desktop.ini.            *)
(* Returns [result, d, log]: True or the error message, the folder after   *)
(* the call, and the calls made in order.                                  *)

\* str(ico_path) in place of str(ico_path.resolve())
icon_ref_unresolved(ico_path, use_absolute_path) ==
    IF use_absolute_path THEN ico_path ELSE <<PathName(ico_path)>>

icon_ref(ico_path, use_absolute_path) ==
    IF use_absolute_path THEN Resolve(ico_path) ELSE <<PathName(ico_path)>>

\* subprocess.run(..., check=True): a non-zero exit code raises too
attrib_aborts_check_true(out) == out # "rc0"

\* subprocess.run(['attrib', ...], capture_output=True, text=True): the exit
\* code is not looked at, only an error raised by the call leaves the try block
attrib_aborts(out) == out \in Raises

\* the except clauses, were they to return True
ExcResult_swallowed(kind, what) == True

ExcResult(kind, what) ==
    IF kind = "perm"
    THEN Failure(<<"Permission denied (try running as administrator)">>)
    ELSE Failure(<<StrOf(what)>>)

must_clear_always(d) == TRUE

\* if desktop_ini.exists(): attrib -s -h -r
must_clear(d) == d.ini.exists

\* the function, were an error of the write not to leave the try block
set_folder_icon_write_unguarded(d, folder_path, ico_path, use_absolute_path) ==
    LET a       == d.env.attrib
        had     == must_clear(d)
        there   == d.ico.exists
        content == IniText(icon_ref(ico_path, use_absolute_path))
        log1    == IF had
                   THEN <<Event("attrib -s -h -r desktop.ini", a["clear"], <<>>, there)>>
                   ELSE <<>>
        ini1    == IF had /\ a["clear"] = "rc0"
                   THEN [d.ini EXCEPT !.attrs = @ \ {"s", "h", "r"}]
                   ELSE d.ini
        log2    == Append(log1, Event("write desktop.ini", d.env.write, content, there))
        ini2    == [exists |-> TRUE, content |-> content, attrs |-> ini1.attrs]
        log3    == Append(log2, Event("attrib +s folder", a["sys"], <<>>, there))
        sys3    == IF a["sys"] = "rc0" THEN TRUE ELSE d.sys
        log4    == Append(log3, Event("attrib +s +h desktop.ini", a["hide"], <<>>, there))
        ini4    == IF a["hide"] = "rc0"
                   THEN [ini2 EXCEPT !.attrs = @ \cup {"s", "h"}]
                   ELSE ini2
    IN  IF had /\ attrib_aborts(a["clear"])
        THEN [result |-> ExcResult(a["clear"], "attrib"), d |-> d, log |-> log1]
        ELSE IF attrib_aborts(a["sys"])
        THEN [result |-> ExcResult(a["sys"], "attrib"),
              d |-> [d EXCEPT !.ini = ini2], log |-> log3]
        ELSE IF attrib_aborts(a["hide"])
        THEN [result |-> ExcResult(a["hide"], "attrib"),
              d |-> [d EXCEPT !.ini = ini2, !.sys = sys3], log |-> log4]
        ELSE [result |-> True,
              d |-> [d EXCEPT !.ini = ini4, !.sys = sys3], log |-> log4]

set_folder_icon(d, folder_path, ico_path, use_absolute_path) ==
    LET a       == d.env.attrib
        had     == must_clear(d)
        there   == d.ico.exists
        content == IniText(icon_ref(ico_path, use_absolute_path))
        log1    == IF had
                   THEN <<Event("attrib -s -h -r desktop.ini", a["clear"], <<>>, there)>>
                   ELSE <<>>
        ini1    == IF had /\ a["clear"] = "rc0"
                   THEN [d.ini EXCEPT !.attrs = @ \ {"s", "h", "r"}]
                   ELSE d.ini
        log2    == Append(log1, Event("write desktop.ini", d.env.write, content, there))
        ini2    == [exists |-> TRUE, content |-> content, attrs |-> ini1.attrs]
        log3    == Append(log2, Event("attrib +s folder", a["sys"], <<>>, there))
        sys3    == IF a["sys"] = "rc0" THEN TRUE ELSE d.sys
        log4    == Append(log3, Event("attrib +s +h desktop.ini", a["hide"], <<>>, there))
        ini4    == IF a["hide"] = "rc0"
                   THEN [ini2 EXCEPT !.attrs = @ \cup {"s", "h"}]
                   ELSE ini2
    IN  IF had /\ attrib_aborts(a["clear"])
        THEN [result |-> ExcResult(a["clear"], "attrib"), d |-> d, log |-> log1]
        ELSE IF d.env.write \in Raises
        THEN [result |-> ExcResult(d.env.write, "write"),
              d |-> [d EXCEPT !.ini = ini1], log |-> log2]
        ELSE IF attrib_aborts(a["sys"])
        THEN [result |-> ExcResult(a["sys"], "attrib"),
              d |-> [d EXCEPT !.ini = ini2], log |-> log3]
        ELSE IF attrib_aborts(a["hide"])
        THEN [result |-> ExcResult(a["hide"], "attrib"),
              d |-> [d EXCEPT !.ini = ini2, !.sys = sys3], log |-> log4]
        ELSE [result |-> True,
              d |-> [d EXCEPT !.ini = ini4, !.sys = sys3], log |-> log4]

----------------------------------------------------------------------------
(* process_single_folder: returns (result, ico_path); here also the folder *)
(* after the call and the calls made.                                      *)

Outcome(result, ico_path, d, log) ==
    [result |-> result, ico_path |-> ico_path, d |-> d, log |-> log]

\* return (result, ico_path), whatever the result
Returned_with_path(s, ico_path, before) ==
    Outcome(s.result, ico_path, s.d, before \o s.log)

\* result = set_folder_icon(...); return (result, ico_path) if result is True else (result, None)
Returned(s, ico_path, before) ==
    Outcome(s.result, IF s.result = True THEN ico_path ELSE None, s.d, before \o s.log)

ApplyIcon(d, folder_path, ico_path, use_absolute_path, before) ==
    Returned(set_folder_icon(d, folder_path, ico_path, use_absolute_path), ico_path, before)

\* existing_sizes - REQUIRED_FOLDER_ICO_SIZES
missing_sizes_swapped(d) == get_ico_sizes(d.ico) \ REQUIRED_FOLDER_ICO_SIZES

\* missing_sizes = REQUIRED_FOLDER_ICO_SIZES - existing_sizes
missing_sizes(d) == REQUIRED_FOLDER_ICO_SIZES \ get_ico_sizes(d.ico)

\* if missing_sizes:
must_regenerate_without_png(d) == missing_sizes(d) # {}

\* if missing_sizes and png_path.exists():
must_regenerate(d) == missing_sizes(d) # {} /\ d.png # "none"

has_ico_unchecked(d) == TRUE

\* if ico_path.exists():
has_ico(d) == d.ico.exists

has_png_unchecked(d) == TRUE

\* if png_path.exists():   (the folder has no folder.ico)
has_png(d) == d.png # "none"

process_single_folder(d, folder_path, use_absolute_path) ==
    LET ico_path == Append(folder_path, "folder.ico")
        g == ConvertPng(d, FOLDER_ICO_SIZES)
    IN  IF ~pillow
        THEN Outcome(Failure(<<"Pillow is not installed. Please run: pip install Pillow">>),
                     None, d, <<>>)
        ELSE IF has_ico(d)
        THEN IF must_regenerate(d)
             THEN IF g.raised
                  THEN Outcome(Failure(<<"Failed to regenerate ICO: ", g.msg>>), None,
                               [d EXCEPT !.ico = g.ico], g.log)
                  ELSE ApplyIcon([d EXCEPT !.ico = g.ico], folder_path, ico_path,
                                 use_absolute_path, g.log)
             ELSE ApplyIcon(d, folder_path, ico_path, use_absolute_path, <<>>)
        ELSE IF has_png(d)
        THEN IF g.raised
             THEN Outcome(Failure(<<"Failed to convert PNG: ", g.msg>>), None,
                          [d EXCEPT !.ico = g.ico], g.log)
             ELSE ApplyIcon([d EXCEPT !.ico = g.ico], folder_path, ico_path,
                            use_absolute_path, g.log)
        ELSE Outcome(Failure(<<"No folder.ico or folder.png found">>), None, d, <<>>)

----------------------------------------------------------------------------
(* The directory tree: tree.root is the target directory, tree.kids its    *)
(* immediate children in the order path.iterdir() yields them, each with   *)
(* the directories nested in it (deep); tree.listable is FALSE when        *)
(* listing the target directory is denied.                                 *)

TargetAbs == Cwd
KidNames == <<"alpha", "beta", "gamma", "delta">>

\* the checks, were a file taken for a folder (exists() alone)
Stat_exists_only(t, path) ==
    LET r == Resolve(path)
    IN  IF r = TargetAbs THEN "dir"
        ELSE IF \E i \in 1..Len(t.kids) : r = Append(TargetAbs, t.kids[i].name)
        THEN "dir"
        ELSE "missing"

\* what the path names: "dir" (the target directory), "file" or "missing"
Stat(t, path) ==
    LET r == Resolve(path)
    IN  IF r = TargetAbs THEN "dir"
        ELSE IF \E i \in 1..Len(t.kids) :
                    r = Append(TargetAbs, t.kids[i].name) /\ ~t.kids[i].is_dir
        THEN "file"
        ELSE "missing"

Attempt(node, name, pre, o) ==
    [node |-> node, name |-> name, pre |-> pre,
     result |-> o.result, ico_path |-> o.ico_path, log |-> o.log]

\* if result is True: processed += 1 / elif result is not None: errors.append(...)
Tally(acc, node, name, pre, o, kids) ==
    [processed |-> IF o.result = True THEN acc.processed + 1 ELSE acc.processed,
     errors    |-> IF o.result = True THEN acc.errors
                   ELSE Append(acc.errors, <<name, ": ">> \o o.result.msg),
     attempts  |-> Append(acc.attempts, Attempt(node, name, pre, o)),
     kids      |-> kids]

\* the outcome o of the i-th child, a folder, counted and kept
Visit(acc, i, o) ==
    Tally(acc, i, acc.kids[i].name, acc.kids[i].d, o, [acc.kids EXCEPT ![i].d = o.d])

\* the loop, were it to stop at the first subfolder that fails
RECURSIVE Subfolders_stop_at_failure(_, _, _, _)
Subfolders_stop_at_failure(acc, i, path, use_absolute_path) ==
    IF i > Len(acc.kids) THEN acc
    ELSE LET k == acc.kids[i]
             o == process_single_folder(k.d, Append(path, k.name), use_absolute_path)
         IN  IF k.is_dir
             THEN IF o.result = True
                  THEN Subfolders_stop_at_failure(Visit(acc, i, o), i + 1, path,
                                                  use_absolute_path)
                  ELSE Visit(acc, i, o)
             ELSE Subfolders_stop_at_failure(acc, i + 1, path, use_absolute_path)

\* the outcome of a directory nested in the i-th child, counted and kept
VisitNested(acc, i, o) ==
    Tally(acc, 100 + i, acc.kids[i].deep[1].name, acc.kids[i].deep[1].d, o,
          [acc.kids EXCEPT ![i].deep[1].d = o.d])

\* the loop, were it to walk the whole tree (os.walk, rglob)
RECURSIVE Subfolders_walk(_, _, _, _)
Subfolders_walk(acc, i, path, use_absolute_path) ==
    IF i > Len(acc.kids) THEN acc
    ELSE LET k == acc.kids[i]
             o == process_single_folder(k.d, Append(path, k.name), use_absolute_path)
             n == process_single_folder(k.deep[1].d, path \o <<k.name, k.deep[1].name>>,
                                        use_absolute_path)
         IN  IF k.is_dir
             THEN IF k.deep # <<>>
                  THEN Subfolders_walk(VisitNested(Visit(acc, i, o), i, n), i + 1, path,
                                       use_absolute_path)
                  ELSE Subfolders_walk(Visit(acc, i, o), i + 1, path, use_absolute_path)
             ELSE Subfolders_walk(acc, i + 1, path, use_absolute_path)

\* for subfolder in path.iterdir(): if subfolder.is_dir(): ...
RECURSIVE Subfolders(_, _, _, _)
Subfolders(acc, i, path, use_absolute_path) ==
    IF i > Len(acc.kids) THEN acc
    ELSE IF acc.kids[i].is_dir
    THEN Subfolders(Visit(acc, i, process_single_folder(acc.kids[i].d,
                                                        Append(path, acc.kids[i].name),
                                                        use_absolute_path)),
                    i + 1, path, use_absolute_path)
    ELSE Subfolders(acc, i + 1, path, use_absolute_path)

\* the summary printed on stdout and the value returned; a line of output is
\* the sequence of its parts
Summary(processed, errors) ==
    IF processed > 0 /\ errors = <<>>
    THEN [ret |-> TRUE,
          stdout |-> << <<"">>,
                        <<"Successfully set icon for ", processed, " folder(s).">>,
                        <<"  Refresh Windows Explorer (F5) to see the changes.">> >>]
    ELSE IF processed > 0 /\ errors # <<>>
    THEN [ret |-> FALSE,
          stdout |-> << <<"">>,
                        <<"Set icon for ", processed, " folder(s), but ",
                          Len(errors), " failed:">> >>
                     \o [i \in 1..(IF Len(errors) < SummaryLimit THEN Len(errors)
                                   ELSE SummaryLimit) |-> <<"  * ">> \o errors[i]]
                     \o (IF Len(errors) > SummaryLimit
                         THEN << <<"  ... and ", Len(errors) - SummaryLimit, " more">> >>
                         ELSE <<>>)]
    ELSE [ret |-> FALSE,
          stdout |-> << <<"">>, <<"No folders were processed.">> >>
                     \o (IF errors # <<>> THEN << <<"Error: ">> \o errors[1] >>
                         ELSE <<>>)]

Refused(t, msg) ==
    [ret |-> FALSE, raised |-> FALSE, stderr |-> <<msg>>, stdout |-> <<>>,
     processed |-> 0, errors |-> <<>>, attempts |-> <<>>, tree |-> t]

\* what the interpreter prints for an error nothing caught
Traceback(e) == << <<"Traceback (most recent call last):">>, <<e>> >>
ListingDenied == "PermissionError: [WinError 5] Access is denied"

\* the run after the loop: the summary is printed, its value returned
Summarized(t, root, acc, sum) ==
    [ret |-> sum.ret, raised |-> FALSE, stderr |-> <<>>, stdout |-> sum.stdout,
     processed |-> acc.processed, errors |-> acc.errors, attempts |-> acc.attempts,
     tree |-> [t EXCEPT !.root = root, !.kids = acc.kids]]

Looped(t, root, acc) == Summarized(t, root, acc, Summary(acc.processed, acc.errors))

\* path.iterdir() raises, outside every try block
Unlisted(t, root, acc0) ==
    [ret |-> FALSE, raised |-> TRUE, stderr |-> Traceback(ListingDenied),
     stdout |-> <<>>, processed |-> acc0.processed, errors |-> acc0.errors,
     attempts |-> acc0.attempts, tree |-> [t EXCEPT !.root = root]]

\* the run after the target is counted (acc0): if recursive: for subfolder in ...
Counted(t, folder_path, recursive, use_absolute_path, root, acc0) ==
    IF recursive /\ ~t.listable THEN Unlisted(t, root, acc0)
    ELSE Looped(t, root,
                IF recursive THEN Subfolders(acc0, 1, folder_path, use_absolute_path)
                ELSE acc0)

\* the run after the target is reconciled, with the outcome o0
TargetDone(t, folder_path, recursive, use_absolute_path, o0) ==
    Counted(t, folder_path, recursive, use_absolute_path, o0.d,
            Tally([processed |-> 0, errors |-> <<>>, attempts |-> <<>>],
                  0, PathName(folder_path), t.root, o0, t.kids))

apply_folder_icon(t, folder_path, recursive, use_absolute_path) ==
    IF platform # "win32"
    THEN Refused(t, <<"Error: This tool only works on Windows.">>)
    ELSE IF ~pillow
    THEN Refused(t, <<"Error: Pillow is not installed. Please run: pip install Pillow">>)
    ELSE IF Stat(t, folder_path) = "missing"
    THEN Refused(t, <<"Error: Folder not found: ">> \o folder_path)
    ELSE IF Stat(t, folder_path) # "dir"
    THEN Refused(t, <<"Error: Path is not a folder: ">> \o folder_path)
    ELSE TargetDone(t, folder_path, recursive, use_absolute_path,
                    process_single_folder(t.root, folder_path, use_absolute_path))

----------------------------------------------------------------------------
(* main: one run of the command line tool.  The command line is a         *)
(* sequence of words, each an option or a path; the lines the -v option    *)
(* adds to stdout are left out.                                            *)

Opt(text) == [opt |-> TRUE, text |-> text, path |-> <<>>]
Pos(path) == [opt |-> FALSE, text |-> "", path |-> path]

Options == {"-r", "--recursive", "-a", "--absolute", "-v", "--verbose"}
HelpOptions == {"-h", "--help"}

Has(argv, texts) == \E i \in 1..Len(argv) : argv[i].opt /\ argv[i].text \in texts
IsPos(w) == ~w.opt
IsUnknown(w) == w.opt /\ w.text \notin Options \cup HelpOptions

\* parser.parse_args(): -h prints the help and exits 0; a missing or a second
\* folder_path and an option the parser does not know exit 2 with the usage
\* on stderr; exit = -1 stands for "parsed"
parse_args(argv) ==
    LET pos == SelectSeq(argv, IsPos)
    IN  IF Has(argv, HelpOptions)
        THEN [exit |-> 0, out |-> "help", folder_path |-> <<>>,
              recursive |-> FALSE, absolute |-> FALSE]
        ELSE IF Len(pos) # 1 \/ SelectSeq(argv, IsUnknown) # <<>>
        THEN [exit |-> 2, out |-> "usage", folder_path |-> <<>>,
              recursive |-> FALSE, absolute |-> FALSE]
        ELSE [exit |-> -1, out |-> "", folder_path |-> pos[1].path,
              recursive |-> Has(argv, {"-r", "--recursive"}),
              absolute |-> Has(argv, {"-a", "--absolute"})]

\* the command line "[-r] [-a] folder_path"
Argv(folder_path, recursive, absolute) ==
    (IF recursive THEN <<Opt("-r")>> ELSE <<>>)
    \o (IF absolute THEN <<Opt("-a")>> ELSE <<>>)
    \o <<Pos(folder_path)>>

NotRun ==
    [ran |-> FALSE, parsed |-> FALSE, folder_path |-> <<>>, recursive |-> FALSE,
     absolute |-> FALSE, ret |-> FALSE, raised |-> FALSE, exit |-> 0,
     stderr |-> <<>>, stdout |-> <<>>, processed |-> 0,
     errors |-> <<>>, attempts |-> <<>>, before |-> NoTree, after |-> NoTree]

NoPrev == [ran |-> FALSE, absolute |-> FALSE, attempted |-> FALSE, ico |-> NoIco]

\* sys.exit(0 if processed else 1)
ExitCode_any_processed(r) == IF r.processed > 0 THEN 0 ELSE 1

\* sys.exit(0 if success else 1); an error nothing caught ends the
\* interpreter with status 1
ExitCode(r) == IF r.raised THEN 1 ELSE IF r.ret THEN 0 ELSE 1

Window == <<gui, icotab, favtab, disk>>

main(argv) ==
    \E args \in {parse_args(argv)} :
        /\ prev' = [ran |-> last.ran, absolute |-> last.absolute,
                    attempted |-> last.attempts # <<>>,
                    ico |-> IF last.attempts # <<>> THEN last.attempts[1].pre.ico
                            ELSE NoIco]
        /\ UNCHANGED <<platform, pillow, Window>>
        /\ IF args.exit # -1
           THEN /\ tree' = tree
                /\ last' = [NotRun EXCEPT !.ran = TRUE, !.exit = args.exit,
                                          !.before = tree, !.after = tree,
                                          !.stderr = IF args.out = "usage"
                                                     THEN << <<"usage">> >> ELSE <<>>,
                                          !.stdout = IF args.out = "help"
                                                     THEN << <<"usage">> >> ELSE <<>>]
           ELSE \E r \in {apply_folder_icon(tree, args.folder_path,
                                             args.recursive, args.absolute)} :
                    /\ tree' = r.tree
                    /\ last' = [ran |-> TRUE, parsed |-> TRUE,
                                folder_path |-> args.folder_path,
                                recursive |-> args.recursive,
                                absolute |-> args.absolute, ret |-> r.ret,
                                raised |-> r.raised, exit |-> ExitCode(r),
                                stderr |-> r.stderr, stdout |-> r.stdout,
                                processed |-> r.processed, errors |-> r.errors,
                                attempts |-> r.attempts, before |-> tree,
                                after |-> r.tree]

----------------------------------------------------------------------------
(* The folder-icon tab of the window (png_to_ico.py).  setup_folder_tab     *)
(* builds the drop zone, the button and the checkbox on Windows only; the  *)
(* preview the tab draws after a run is left out.                          *)

NoBox == [kind |-> "none", title |-> "", text |-> <<>>]
Box(kind, title, text) == [kind |-> kind, title |-> title, text |-> text]

PillowBox ==
    Box("showerror", "Error",
        << <<"Pillow is not installed. Please run:">>, <<"pip install Pillow">> >>)

\* the tab, were it built on every platform
setup_folder_tab_everywhere ==
    [label |-> "", widgets |-> TRUE]

\* if not is_windows: warning_label ...; return
setup_folder_tab ==
    IF platform # "win32"
    THEN [label |-> "This feature is only available on Windows.", widgets |-> FALSE]
    ELSE [label |-> "", widgets |-> TRUE]

\* PngToIcoConverter.set_folder_icon: the same calls as set_folder_icon of
\* the command line tool, desktop.ini always naming ico_path.name
Gui_set_folder_icon(d, folder_path, ico_path) ==
    set_folder_icon(d, folder_path, ico_path, FALSE)

\* PngToIcoConverter.process_single_folder: folder.ico is used as it is
Gui_process_single_folder(d, folder_path) ==
    LET ico_path == Append(folder_path, "folder.ico")
        g == ConvertPng(d, FOLDER_ICO_SIZES)
    IN  IF has_ico(d)
        THEN Returned(Gui_set_folder_icon(d, folder_path, ico_path), ico_path, <<>>)
        ELSE IF has_png(d)
        THEN IF g.raised
             THEN Outcome(Failure(<<"Failed to convert PNG: ", g.msg>>), None,
                          [d EXCEPT !.ico = g.ico], g.log)
             ELSE Returned(Gui_set_folder_icon([d EXCEPT !.ico = g.ico],
                                               folder_path, ico_path),
                           ico_path, g.log)
        ELSE Outcome(Failure(<<"No folder.ico or folder.png found">>), None, d, <<>>)

\* for subfolder in path.iterdir(): if subfolder.is_dir(): ...
RECURSIVE Gui_Subfolders(_, _, _)
Gui_Subfolders(acc, i, path) ==
    IF i > Len(acc.kids) THEN acc
    ELSE IF acc.kids[i].is_dir
    THEN Gui_Subfolders(Visit(acc, i, Gui_process_single_folder(
                                          acc.kids[i].d, Append(path, acc.kids[i].name))),
                        i + 1, path)
    ELSE Gui_Subfolders(acc, i + 1, path)

\* the status line and the message box that end a run
Gui_Summary(processed, errors) ==
    IF processed > 0 /\ errors = <<>>
    THEN [status |-> <<"Set icon for ", processed, " folder(s). Refresh Explorer (F5).">>,
          box |-> Box("showinfo", "Success",
                      << <<"Folder icon set for ", processed, " folder(s).">>,
                         <<"">>,
                         <<"You may need to refresh Windows Explorer (F5) to see the changes.">> >>)]
    ELSE IF processed > 0 /\ errors # <<>>
    THEN [status |-> <<"Set ", processed, " icon(s), ", Len(errors), " error(s)">>,
          box |-> Box("showwarning", "Partial Success",
                      << <<"Set icon for ", processed, " folder(s).">>,
                         <<"">>, <<"Errors:">> >>
                      \o [i \in 1..(IF Len(errors) < SummaryLimit THEN Len(errors)
                                    ELSE SummaryLimit) |-> errors[i]]
                      \o (IF Len(errors) > SummaryLimit
                          THEN << <<"... and ", Len(errors) - SummaryLimit, " more">> >>
                          ELSE <<>>))]
    ELSE [status |-> <<"No folders processed">>,
          box |-> IF errors # <<>> THEN Box("showerror", "Error", <<errors[1]>>)
                  ELSE NoBox]

NoFolderRun ==
    [ran |-> FALSE, folder_path |-> <<>>, subfolders |-> FALSE, raised |-> FALSE,
     status |-> <<>>, box |-> NoBox, processed |-> 0, errors |-> <<>>,
     attempts |-> <<>>, before |-> NoTree, after |-> NoTree]

Gui_Refused(t, box) ==
    [raised |-> FALSE, status |-> <<>>, box |-> box, processed |-> 0,
     errors |-> <<>>, attempts |-> <<>>, tree |-> t]

Gui_Summarized(t, root, acc, sum) ==
    [raised |-> FALSE, status |-> sum.status, box |-> sum.box,
     processed |-> acc.processed, errors |-> acc.errors, attempts |-> acc.attempts,
     tree |-> [t EXCEPT !.root = root, !.kids = acc.kids]]

Gui_Looped(t, root, acc) ==
    Gui_Summarized(t, root, acc, Gui_Summary(acc.processed, acc.errors))

\* path.iterdir() raises in the callback: Tk reports it, the status stays at
\* "Processing..."
Gui_Unlisted(t, root, acc0) ==
    [raised |-> TRUE, status |-> <<"Processing...">>, box |-> NoBox,
     processed |-> acc0.processed, errors |-> acc0.errors,
     attempts |-> acc0.attempts, tree |-> [t EXCEPT !.root = root]]

Gui_Counted(t, folder_path, process_subfolders, root, acc0) ==
    IF process_subfolders /\ ~t.listable THEN Gui_Unlisted(t, root, acc0)
    ELSE Gui_Looped(t, root,
                    IF process_subfolders THEN Gui_Subfolders(acc0, 1, folder_path)
                    ELSE acc0)

Gui_TargetDone(t, folder_path, process_subfolders, o0) ==
    Gui_Counted(t, folder_path, process_subfolders, o0.d,
                Tally([processed |-> 0, errors |-> <<>>, attempts |-> <<>>],
                      0, PathName(folder_path), t.root, o0, t.kids))

\* PngToIcoConverter.apply_folder_icon; process_subfolders is the checkbox
Gui_apply_folder_icon(t, folder_path, process_subfolders) ==
    IF ~pillow
    THEN Gui_Refused(t, PillowBox)
    ELSE IF Stat(t, folder_path) = "missing"
    THEN Gui_Refused(t, Box("showerror", "Error",
                            << <<"Folder not found: ">> \o folder_path >>))
    ELSE IF Stat(t, folder_path) # "dir"
    THEN Gui_Refused(t, Box("showerror", "Error",
                            << <<"Please select a folder, not a file.">> >>))
    ELSE Gui_TargetDone(t, folder_path, process_subfolders,
                        Gui_process_single_folder(t.root, folder_path))

FolderRun(folder_path, process_subfolders) ==
    \E r \in {Gui_apply_folder_icon(tree, folder_path, process_subfolders)} :
        /\ tree' = r.tree
        /\ gui' = [gui EXCEPT !.run = [ran |-> TRUE, folder_path |-> folder_path,
                                       subfolders |-> process_subfolders,
                                       raised |-> r.raised, status |-> r.status,
                                       box |-> r.box, processed |-> r.processed,
                                       errors |-> r.errors, attempts |-> r.attempts,
                                       before |-> tree, after |-> r.tree]]
        /\ UNCHANGED <<platform, pillow, last, prev, icotab, favtab, disk>>

\* the "Select Folder" button: askdirectory() gives "" when it is cancelled
select_folder(folder_path, chosen, process_subfolders) ==
    /\ gui.tab.widgets
    /\ IF chosen THEN FolderRun(folder_path, process_subfolders)
       ELSE UNCHANGED vars

\* event.data of a drop: the path, in braces when it holds a space
Dropped(braced, path) == [braced |-> braced, path |-> path]
\* if data.startswith('{') and data.endswith('}'): data = data[1:-1]
Unbrace(data) == data.path

\* a drop on the drop zone, bound only when tkinterdnd2 is there
on_drop_folder(data, process_subfolders) ==
    /\ gui.tab.widgets
    /\ gui.has_dnd
    /\ FolderRun(Unbrace(data), process_subfolders)

----------------------------------------------------------------------------
(* The output directory: a set of files, at most one of each name.  A file *)
(* name is the sequence of the strings it is concatenated from.            *)

FileOf(name, kind, data) == [name |-> name, kind |-> kind, data |-> data]
Write(files, f) == { g \in files : g.name # f.name } \cup {f}
Names(files) == { f.name : f \in files }

----------------------------------------------------------------------------
(* The PNG-to-ICO tab: select_file_ico / set_ico_file, select_batch_files, *)
(* do_conversion, convert_batch, convert_to_ico.  A source file is its     *)
(* stem, its suffix and what the imaging library does with it: "ok",       *)
(* "bad_open" (Image.open raises) or "bad_save" (img.save raises).         *)

Source(stem, suffix, image) == [stem |-> stem, suffix |-> suffix, image |-> image]

\* path.suffix.lower()
Lower(suffix) == IF suffix = ".PNG" THEN ".png" ELSE suffix

NoConversion ==
    [ran |-> FALSE, mode |-> "none", sizes |-> <<>>, sources |-> <<>>,
     success |-> 0, failed |-> 0, log |-> <<>>, status |-> <<>>, box |-> NoBox]

\* sel is the last selection event: "single", "batch", "rejected",
\* "cancelled"
IcoTabInit ==
    [ico_selected_file |-> <<>>, batch_files |-> <<>>, convert_btn |-> "disabled",
     run |-> NoConversion,
     sel |-> "none"]

\* get_selected_sizes: the checked sizes, in the order of self.ico_sizes
AllIcoSizes == <<16, 32, 48, 64, 128, 256>>
IsChecked(checked, w) == w \in checked
RECURSIVE get_selected_sizes(_, _)
get_selected_sizes(checked, i) ==
    IF i > Len(AllIcoSizes) THEN <<>>
    ELSE (IF IsChecked(checked, AllIcoSizes[i])
          THEN << <<AllIcoSizes[i], AllIcoSizes[i]>> >> ELSE <<>>)
         \o get_selected_sizes(checked, i + 1)

Step(op, i, source, out) == [op |-> op, i |-> i, source |-> source, out |-> out]

\* img = Image.open(path); img.save(output_file, format='ICO', sizes=sizes)
ConvertOne(acc, i, f, sizes) ==
    CASE f.image = "ok" ->
           [success |-> acc.success + 1, failed |-> acc.failed,
            log |-> acc.log \o <<Step("open", i, f, "ok"), Step("save", i, f, "ok")>>,
            files |-> Write(acc.files, FileOf(<<f.stem, ".ico">>, "ico", sizes))]
      [] f.image = "bad_save" ->
           [success |-> acc.success, failed |-> acc.failed + 1,
            log |-> acc.log \o <<Step("open", i, f, "ok"), Step("save", i, f, "err")>>,
            files |-> Write(acc.files, FileOf(<<f.stem, ".ico">>, "partial", <<>>))]
      [] OTHER ->
           [success |-> acc.success, failed |-> acc.failed + 1,
            log |-> Append(acc.log, Step("open", i, f, "err")),
            files |-> acc.files]

\* the loop, were the try block around it rather than in it
RECURSIVE BatchLoop_stops_at_failure(_, _, _, _)
BatchLoop_stops_at_failure(acc, i, batch_files, sizes) ==
    IF i > Len(batch_files) THEN acc
    ELSE IF batch_files[i].image # "ok"
    THEN ConvertOne(acc, i, batch_files[i], sizes)
    ELSE BatchLoop_stops_at_failure(ConvertOne(acc, i, batch_files[i], sizes),
                                    i + 1, batch_files, sizes)

\* for file_path in self.batch_files: try: ... success += 1
\*                                    except Exception: failed += 1
RECURSIVE BatchLoop(_, _, _, _)
BatchLoop(acc, i, batch_files, sizes) ==
    IF i > Len(batch_files) THEN acc
    ELSE BatchLoop(ConvertOne(acc, i, batch_files[i], sizes), i + 1, batch_files, sizes)

\* convert_batch(sizes); dir_chosen is FALSE when askdirectory() is cancelled
convert_batch(tab, files, sizes, dir_chosen) ==
    LET done == BatchLoop([success |-> 0, failed |-> 0, log |-> <<>>, files |-> files],
                          1, tab.batch_files, sizes)
        run  == [ran |-> TRUE, mode |-> "batch", sizes |-> sizes,
                 sources |-> tab.batch_files,
                 success |-> done.success, failed |-> done.failed, log |-> done.log,
                 status |-> <<>>, box |-> NoBox]
    IN  IF ~pillow
        THEN [tab |-> [tab EXCEPT !.run = [NoConversion EXCEPT !.ran = TRUE,
                                                              !.mode = "batch",
                                                              !.box = PillowBox]],
              files |-> files]
        ELSE IF ~dir_chosen
        THEN [tab |-> [tab EXCEPT !.run = [NoConversion EXCEPT !.ran = TRUE,
                                                              !.mode = "batch"]],
              files |-> files]
        ELSE IF done.failed = 0
        THEN [tab |-> [tab EXCEPT !.run =
                          [run EXCEPT !.status = <<"Converted ", done.success, " files!">>,
                                      !.box = Box("showinfo", "Success",
                                                  << <<"Converted ", done.success,
                                                       " ICO files to:">> >>)]],
              files |-> done.files]
        ELSE [tab |-> [tab EXCEPT !.run =
                          [run EXCEPT !.status = <<done.success, " OK, ",
                                                   done.failed, " failed">>,
                                      !.box = Box("showwarning", "Partial Success",
                                                  << <<"Converted ", done.success, " files.">>,
                                                     <<done.failed, " files failed.">> >>)]],
              files |-> done.files]

\* convert_to_ico(file_path, sizes); the file selected is there, and the
\* name asksaveasfilename() proposes is taken unless the dialog is cancelled
convert_to_ico(tab, files, sizes, dir_chosen) ==
    LET f    == tab.ico_selected_file[1]
        done == ConvertOne([success |-> 0, failed |-> 0, log |-> <<>>, files |-> files],
                           1, f, sizes)
        run  == [ran |-> TRUE, mode |-> "single", sizes |-> sizes, sources |-> <<f>>,
                 success |-> done.success, failed |-> done.failed, log |-> done.log,
                 status |-> <<>>, box |-> NoBox]
    IN  IF ~pillow
        THEN [tab |-> [tab EXCEPT !.run = [NoConversion EXCEPT !.ran = TRUE,
                                                              !.mode = "single",
                                                              !.box = PillowBox]],
              files |-> files]
        ELSE IF Lower(f.suffix) # ".png"
        THEN [tab |-> [tab EXCEPT !.run =
                          [NoConversion EXCEPT !.ran = TRUE, !.mode = "single",
                              !.box = Box("showerror", "Error",
                                          << <<"Please select a PNG file.">> >>)]],
              files |-> files]
        ELSE IF ~dir_chosen
        THEN [tab |-> [tab EXCEPT !.run = [NoConversion EXCEPT !.ran = TRUE,
                                                              !.mode = "single"]],
              files |-> files]
        ELSE IF done.failed = 0
        THEN [tab |-> [tab EXCEPT !.run =
                          [run EXCEPT !.status = <<"Saved: ", f.stem, ".ico">>,
                                      !.box = Box("showinfo", "Success",
                                                  << <<"ICO file saved to:">> >>)]],
              files |-> done.files]
        ELSE [tab |-> [tab EXCEPT !.run =
                          [run EXCEPT !.status = <<"Conversion failed">>,
                                      !.box = Box("showerror", "Error",
                                                  << <<"Conversion failed:">> >>)]],
              files |-> done.files]

\* set_ico_file without "self.batch_files = []"
set_ico_file_keeps_batch(tab, f) ==
    IF Lower(f.suffix) # ".png"
    THEN [tab EXCEPT !.run =
             [NoConversion EXCEPT !.box =
                 Box("showerror", "Error", << <<"Please select a PNG file.">> >>)],
                     !.sel = "rejected"]
    ELSE [tab EXCEPT !.ico_selected_file = <<f>>,
                     !.convert_btn = "normal",
                     !.sel = "single"]

\* a file that is not a .png is refused with a box; a .png becomes the
\* selected file, the batch is emptied and the button enabled
set_ico_file(tab, f) ==
    IF Lower(f.suffix) # ".png"
    THEN [tab EXCEPT !.run =
             [NoConversion EXCEPT !.box =
                 Box("showerror", "Error", << <<"Please select a PNG file.">> >>)],
                     !.sel = "rejected"]
    ELSE [tab EXCEPT !.ico_selected_file = <<f>>,
                     !.batch_files = <<>>,
                     !.convert_btn = "normal",
                     !.sel = "single"]

\* the "Select PNG" button: askopenfilename() gives "" when cancelled
select_file_ico(f, chosen) ==
    /\ IF ~chosen THEN icotab' = [icotab EXCEPT !.sel = "cancelled"]
       ELSE icotab' = set_ico_file(icotab, f)
    /\ UNCHANGED <<platform, pillow, tree, last, prev, gui, favtab, disk>>

\* a drop on the drop zone of the tab, bound only when tkinterdnd2 is there
on_drop_ico(data) ==
    /\ gui.has_dnd
    /\ icotab' = set_ico_file(icotab, Unbrace(data))
    /\ UNCHANGED <<platform, pillow, tree, last, prev, gui, favtab, disk>>

\* the "Batch Select" button: askopenfilenames() gives () when cancelled
select_batch_files(file_paths) ==
    /\ IF file_paths = <<>>
       THEN icotab' = [icotab EXCEPT !.sel = "cancelled"]
       ELSE icotab' = [icotab EXCEPT !.batch_files = file_paths,
                                     !.ico_selected_file = <<>>,
                                     !.convert_btn = "normal",
                                     !.sel = "batch"]
    /\ UNCHANGED <<platform, pillow, tree, last, prev, gui, favtab, disk>>

\* the "Convert" button, which can be pressed once it is enabled; checked is
\* the set of size checkboxes that are ticked
do_conversion(checked, dir_chosen) ==
    /\ icotab.convert_btn = "normal"
    /\ \E sizes \in {get_selected_sizes(checked, 1)} :
         IF sizes = <<>>
         THEN /\ icotab' = [icotab EXCEPT !.run =
                               [NoConversion EXCEPT !.ran = TRUE, !.box =
                                   Box("showerror", "Error",
                                       << <<"Please select at least one ICO size.">> >>)]]
              /\ disk' = disk
         ELSE IF icotab.batch_files # <<>>
         THEN \E r \in {convert_batch(icotab, disk, sizes, dir_chosen)} :
                  icotab' = r.tab /\ disk' = r.files
         ELSE IF icotab.ico_selected_file # <<>>
         THEN \E r \in {convert_to_ico(icotab, disk, sizes, dir_chosen)} :
                  icotab' = r.tab /\ disk' = r.files
         ELSE icotab' = icotab /\ disk' = disk
    /\ UNCHANGED <<platform, pillow, tree, last, prev, gui, favtab>>

----------------------------------------------------------------------------
(* The favicon tab: select_source_file / set_source_file, the prefix       *)
(* entry with validate_prefix bound to <KeyRelease>, generate_favicon_set. *)
(* The text of the entry is a sequence of characters; a key inserts its    *)
(* character when it is pressed and validate_prefix runs when it is        *)
(* released, so the button can be clicked between the two.                 *)

LowerCase == {"a", "b", "c", "d", "e", "f", "g", "h", "i", "j", "k", "l", "m",
              "n", "o", "p", "q", "r", "s", "t", "u", "v", "w", "x", "y", "z"}
UpperCase == {"A", "B", "C", "D", "E", "F", "G", "H", "I", "J", "K", "L", "M",
              "N", "O", "P", "Q", "R", "S", "T", "U", "V", "W", "X", "Y", "Z"}
Digits == {"0", "1", "2", "3", "4", "5", "6", "7", "8", "9"}

\* the characters re.sub(r'[^a-zA-Z0-9\-_]', '', current) keeps
IsPrefixChar(c) == c \in LowerCase \cup UpperCase \cup Digits \cup {"-", "_"}
validate_prefix(current) == SelectSeq(current, IsPrefixChar)

\* str.strip()
RECURSIVE LStrip(_)
LStrip(text) == IF text # <<>> /\ Head(text) = " " THEN LStrip(Tail(text)) ELSE text
RECURSIVE RStrip(_)
RStrip(text) ==
    IF text # <<>> /\ text[Len(text)] = " "
    THEN RStrip(SubSeq(text, 1, Len(text) - 1)) ELSE text
Strip(text) == RStrip(LStrip(text))

NoGeneration ==
    [ran |-> FALSE, prefix |-> <<>>, generated_files |-> <<>>, status |-> <<>>,
     box |-> NoBox, before |-> {}, after |-> {}]

FavTabInit ==
    [selected_file |-> <<>>, prefix_entry |-> <<>>, keys |-> 0,
     last_html_snippet |-> <<>>, run |-> NoGeneration]

\* f"{prefix}{base_filename}"
Prefixed(prefix, base) == Append(prefix, base)
\* the reference, were the prefix left out of it
Href_unprefixed(prefix, base) == <<"/", base>>

\* f"/{prefix}{base_filename}"
Href(prefix, base) == <<"/">> \o Prefixed(prefix, base)

\* the dictionary png_sizes, in its order
png_sizes_without_512 ==
    << <<"favicon-16x16.png", 16>>, <<"favicon-32x32.png", 32>>,
       <<"android-chrome-192x192.png", 192>> >>

png_sizes ==
    << <<"favicon-16x16.png", 16>>, <<"favicon-32x32.png", 32>>,
       <<"android-chrome-192x192.png", 192>>, <<"android-chrome-512x512.png", 512>> >>

\* the files generate_favicon_set writes, in the order it writes them
FaviconPlan(prefix) ==
    << FileOf(Prefixed(prefix, "favicon.ico"), "ico",
              << <<16, 16>>, <<32, 32>>, <<48, 48>> >>) >>
    \o [i \in 1..Len(png_sizes) |->
           FileOf(Prefixed(prefix, png_sizes[i][1]), "png", <<png_sizes[i][2]>>)]
    \o << FileOf(Prefixed(prefix, "apple-touch-icon.png"), "png", <<180>>),
          FileOf(Prefixed(prefix, "manifest.json"), "json",
                 <<Href(prefix, "android-chrome-192x192.png"),
                   Href(prefix, "android-chrome-512x512.png")>>),
          FileOf(Prefixed(prefix, "favicon.html"), "html",
                 <<Href(prefix, "favicon.ico"), Href(prefix, "favicon-32x32.png"),
                   Href(prefix, "favicon-16x16.png"),
                   Href(prefix, "apple-touch-icon.png"),
                   Href(prefix, "manifest.json")>>) >>

\* the writes in order, up to the one that raises (fail_at, 0 for none)
RECURSIVE WritePlan(_, _, _, _)
WritePlan(acc, i, plan, fail_at) ==
    IF i > Len(plan) THEN acc
    ELSE IF i = fail_at THEN [acc EXCEPT !.raised = TRUE]
    ELSE WritePlan([raised |-> FALSE,
                    generated_files |-> Append(acc.generated_files, plan[i].name),
                    files |-> Write(acc.files, plan[i])],
                   i + 1, plan, fail_at)

\* generate_favicon_set; dir_chosen is FALSE when askdirectory() is cancelled
generate_favicon_set(tab, files, dir_chosen, fail_at) ==
    LET prefix == Strip(tab.prefix_entry)
        plan   == FaviconPlan(prefix)
        done   == WritePlan([raised |-> FALSE, generated_files |-> <<>>, files |-> files],
                            1, plan, fail_at)
        quiet  == [NoGeneration EXCEPT !.ran = TRUE]
    IN  IF ~pillow
        THEN [tab |-> [tab EXCEPT !.run = [quiet EXCEPT !.box = PillowBox]],
              files |-> files]
        ELSE IF tab.selected_file = <<>>
        THEN [tab |-> [tab EXCEPT !.run =
                          [quiet EXCEPT !.box =
                              Box("showerror", "Error",
                                  << <<"Please select a source PNG file first.">> >>)]],
              files |-> files]
        ELSE IF ~dir_chosen
        THEN [tab |-> [tab EXCEPT !.run = quiet], files |-> files]
        ELSE IF tab.selected_file[1].image = "bad_open"
        THEN [tab |-> [tab EXCEPT !.run =
                          [quiet EXCEPT !.prefix = prefix,
                                        !.status = <<"Generation failed">>,
                                        !.box = Box("showerror", "Error",
                                                    << <<"Generation failed:">> >>)]],
              files |-> files]
        ELSE IF done.raised
        THEN [tab |-> [tab EXCEPT
                          !.last_html_snippet =
                              IF fail_at = Len(plan) THEN plan[Len(plan)].data ELSE @,
                          !.run =
                          [quiet EXCEPT !.prefix = prefix,
                                        !.generated_files = done.generated_files,
                                        !.status = <<"Generation failed">>,
                                        !.box = Box("showerror", "Error",
                                                    << <<"Generation failed:">> >>)]],
              files |-> done.files]
        ELSE [tab |-> [tab EXCEPT
                          !.last_html_snippet = plan[Len(plan)].data,
                          !.run =
                          [quiet EXCEPT !.prefix = prefix,
                                        !.generated_files = done.generated_files,
                                        !.status = <<"Generated ",
                                                     Len(done.generated_files), " files!">>,
                                        !.box = Box("showinfo", "Success",
                                                    << <<"Favicon set generated in:">> >>
                                                    \o [i \in 1..Len(done.generated_files) |->
                                                           done.generated_files[i]])]],
              files |-> done.files]

\* the "Select PNG" button of the tab: askopenfilename(), then set_source_file
select_source_file(f, chosen) ==
    /\ IF ~chosen THEN favtab' = favtab
       ELSE IF Lower(f.suffix) # ".png"
       THEN favtab' = [favtab EXCEPT !.run =
                          [NoGeneration EXCEPT !.box =
                              Box("showerror", "Error", << <<"Please select a PNG file.">> >>)]]
       ELSE favtab' = [favtab EXCEPT !.selected_file = <<f>>]
    /\ UNCHANGED <<platform, pillow, tree, last, prev, gui, icotab, disk>>

\* a key pressed in the prefix entry: the entry widget takes the character;
\* keys counts the keys pressed so far, at most MaxPrefix
key_press(c) ==
    /\ favtab.keys < MaxPrefix
    /\ favtab' = [favtab EXCEPT !.prefix_entry = Append(@, c), !.keys = @ + 1]
    /\ UNCHANGED <<platform, pillow, tree, last, prev, gui, icotab, disk>>

\* self.prefix_entry.bind("<KeyRelease>", self.validate_prefix): the key is
\* released and the entry is rewritten with the characters that are valid
key_release ==
    /\ favtab' = [favtab EXCEPT !.prefix_entry = validate_prefix(@)]
    /\ UNCHANGED <<platform, pillow, tree, last, prev, gui, icotab, disk>>

\* the "Generate Favicon Set" button; the run keeps the names in the output
\* directory before and after it
generate(dir_chosen, fail_at) ==
    /\ \E r \in {generate_favicon_set(favtab, disk, dir_chosen, fail_at)} :
           /\ favtab' = [r.tab EXCEPT !.run.before = Names(disk),
                                      !.run.after = Names(r.files)]
           /\ disk' = r.files
    /\ UNCHANGED <<platform, pillow, tree, last, prev, gui, icotab>>

----------------------------------------------------------------------------
(* The states a run can start from *)

Pairs(ws) == [i \in 1..Len(ws) |-> <<ws[i], ws[i]>>]

IcoFiles ==
    { NoIco,
      IcoOf(FOLDER_ICO_SIZES),
      IcoOf(Pairs(<<16, 32, 48, 256>>)),
      IcoOf(Pairs(<<16, 32, 48>>)),
      SingleIco(32),
      BrokenIco }

PngFiles == {"none", "ok", "bad_open", "bad_save"}

IniFiles ==
    { NoIni,
      [exists |-> TRUE, content |-> IniText(<<"old.ico">>), attrs |-> {}],
      [exists |-> TRUE, content |-> IniText(<<"old.ico">>), attrs |-> {"s", "h", "r"}],
      [exists |-> TRUE, content |-> IniText(<<"folder.ico">>), attrs |-> {"s", "h"}] }

\* the write and the three attrib calls: at most one of them raises (what the
\* calls after it would do is then left at "rc0": they are not made, except
\* after a clearing call that is skipped), or attrib is not on the PATH and
\* every call of it raises
NFaults(e) == (IF e.write \in Raises THEN 1 ELSE 0)
              + Cardinality({s \in Sites : e.attrib[s] \in Raises})

Envs ==
    { e \in [write : {"ok"} \cup Raises, attrib : [Sites -> {"rc0", "rc1"} \cup Raises]] :
        \/ /\ NFaults(e) <= 1
           /\ e.write \in Raises => e.attrib["sys"] = "rc0" /\ e.attrib["hide"] = "rc0"
           /\ e.attrib["sys"] \in Raises => e.attrib["hide"] = "rc0"
        \/ e.write = "ok" /\ \A s \in Sites : e.attrib[s] = "err" }

Dirs == [ico : IcoFiles, png : PngFiles, ini : IniFiles, sys : {FALSE}, env : Envs]

File(name) == [name |-> name, is_dir |-> FALSE, d |-> NoDir, deep |-> <<>>]
Folder(name, d) == [name |-> name, is_dir |-> TRUE, d |-> d, deep |-> <<>>]

\* the ways the command line names the target, a file and a path that is not there
TargetPaths == { <<Drive, "icons">>, <<"..", "icons">>, <<>> }
OtherPaths == { <<Drive, "icons", KidNames[1]>>, <<Drive, "nowhere">> }

\* the window as PngToIcoConverter.__init__ leaves it
WindowInit(has_dnd) ==
    /\ gui = [tab |-> setup_folder_tab, has_dnd |-> has_dnd, run |-> NoFolderRun]
    /\ icotab = IcoTabInit
    /\ favtab = FavTabInit
    /\ disk = {}

Init ==
    /\ platform \in {"win32", "linux"}
    /\ pillow \in BOOLEAN
    /\ tree \in [root : Dirs, kids : {<<File(KidNames[1])>>}, listable : {TRUE}]
    /\ (platform # "win32" \/ ~pillow) => tree.root.env = NoFault
    /\ last = NotRun
    /\ prev = NoPrev
    /\ WindowInit(FALSE)

Next ==
    \E p \in TargetPaths \cup OtherPaths, a \in BOOLEAN : main(Argv(p, FALSE, a))

Spec == Init /\ [][Next]_vars

----------------------------------------------------------------------------
(* Batch runs: a target with up to MaxSub children, files and folders.     *)

WriteDenied == [NoFault EXCEPT !.write = "perm"]

\* a folder with no folder.ico, and one with a complete folder.ico alone
PngDir(png) == [NoDir EXCEPT !.png = png]
IcoDir(env) == [NoDir EXCEPT !.ico = IcoOf(FOLDER_ICO_SIZES), !.env = env]

BatchDirs ==
    { PngDir(png) : png \in {"none", "ok", "bad_open"} }
    \cup { IcoDir(env) : env \in {NoFault, WriteDenied} }

\* n children, each a file or a folder of one of the kinds dirs holding
\* the directories of one of deeps
RECURSIVE KidsIn(_, _, _)
KidsIn(n, dirs, deeps) ==
    IF n = 0 THEN {<<>>}
    ELSE { Append(ks, k) :
               ks \in KidsIn(n - 1, dirs, deeps),
               k \in {File(KidNames[n])}
                     \cup { [name |-> KidNames[n], is_dir |-> TRUE, d |-> d, deep |-> deep] :
                              d \in dirs, deep \in deeps } }

KidsOf(n) == KidsIn(n, BatchDirs, {<<>>})

BatchInit ==
    /\ platform = "win32"
    /\ pillow = TRUE
    /\ \E n \in 0..MaxSub :
           tree \in [root : BatchDirs, kids : KidsOf(n), listable : {TRUE}]
    /\ last = NotRun
    /\ prev = NoPrev
    /\ WindowInit(FALSE)

BatchNext ==
    \E p \in {<<Drive, "icons">>, <<>>}, r \in BOOLEAN, a \in BOOLEAN :
        main(Argv(p, r, a))

BatchSpec == BatchInit /\ [][BatchNext]_vars

----------------------------------------------------------------------------
(* Walks: a target with up to MaxSub children, each folder among them with *)
(* or without a directory nested in it that holds a folder.png.            *)

Nested == [name |-> "nested", d |-> PngDir("ok")]

WalkDirs == { PngDir("none"), PngDir("ok"), IcoDir(WriteDenied) }

WalkInit ==
    /\ platform = "win32"
    /\ pillow = TRUE
    /\ \E n \in 0..MaxSub :
           tree \in [root : WalkDirs, kids : KidsIn(n, WalkDirs, {<<>>, <<Nested>>}),
                     listable : {TRUE}]
    /\ last = NotRun
    /\ prev = NoPrev
    /\ WindowInit(FALSE)

WalkNext ==
    \E p \in {<<Drive, "icons">>, <<"..", "icons">>}, r \in BOOLEAN : main(Argv(p, r, FALSE))

WalkSpec == WalkInit /\ [][WalkNext]_vars

----------------------------------------------------------------------------
(* The entry points: the command line, well formed or not, and the folder  *)
(* tab of the window, on either platform, with or without Pillow, over a   *)
(* target holding a file and a subfolder.                                  *)

EntryDirs == { PngDir("none"), PngDir("ok"), IcoDir(NoFault), IcoDir(WriteDenied) }

EntryPaths == { <<Drive, "icons">>, <<Drive, "icons", KidNames[1]>>, <<Drive, "nowhere">> }

EntryArgvs ==
    { Argv(p, r, FALSE) : p \in EntryPaths, r \in BOOLEAN }
    \cup { <<>>,
           <<Opt("-h")>>,
           <<Opt("-x"), Pos(<<Drive, "icons">>)>>,
           <<Pos(<<Drive, "icons">>), Pos(<<Drive, "nowhere">>)>>,
           <<Opt("--recursive"), Opt("-v"), Pos(<<Drive, "icons">>)>> }

EntryInit ==
    /\ platform \in {"win32", "linux"}
    /\ pillow \in BOOLEAN
    /\ tree \in [root : EntryDirs,
                 kids : { <<File(KidNames[1]), Folder(KidNames[2], d)>> : d \in EntryDirs },
                 listable : BOOLEAN]
    /\ last = NotRun
    /\ prev = NoPrev
    /\ \E has_dnd \in BOOLEAN : WindowInit(has_dnd)

EntryNext ==
    \/ \E argv \in EntryArgvs : main(argv)
    \/ \E p \in EntryPaths, chosen \in BOOLEAN, sub \in BOOLEAN :
           select_folder(p, chosen, sub)
    \/ \E p \in EntryPaths, braced \in BOOLEAN, sub \in BOOLEAN :
           on_drop_folder(Dropped(braced, p), sub)

EntrySpec == EntryInit /\ [][EntryNext]_vars

----------------------------------------------------------------------------
(* The PNG-to-ICO tab alone *)

BatchSources ==
    { Source("a", ".png", "ok"), Source("b", ".png", "bad_open"),
      Source("c", ".PNG", "bad_save") }
SingleSources == BatchSources \cup { Source("notes", ".txt", "bad_open") }
Batches == UNION { [1..n -> BatchSources] : n \in 0..MaxBatch }
SizeChoices == { {16, 32, 48, 64, 128, 256}, {32, 16}, {} }

ConvertInit ==
    /\ platform \in {"win32", "linux"}
    /\ pillow \in BOOLEAN
    /\ tree = NoTree
    /\ last = NotRun
    /\ prev = NoPrev
    /\ \E has_dnd \in BOOLEAN : WindowInit(has_dnd)

ConvertNext ==
    \/ \E f \in SingleSources, chosen \in BOOLEAN : select_file_ico(f, chosen)
    \/ \E f \in SingleSources, braced \in BOOLEAN : on_drop_ico(Dropped(braced, f))
    \/ \E fs \in Batches : select_batch_files(fs)
    \/ \E checked \in SizeChoices, chosen \in BOOLEAN : do_conversion(checked, chosen)

ConvertSpec == ConvertInit /\ [][ConvertNext]_vars

----------------------------------------------------------------------------
(* The favicon tab alone *)

TypedChars == {"s", "A", "-", "!", " "}
\* the write that raises: none, or the first (favicon.ico)
FailPoints == {0, 1}
FaviconSources == { Source("logo", ".png", "ok"), Source("torn", ".png", "bad_open"),
                    Source("notes", ".txt", "bad_open") }

FaviconInit ==
    /\ platform \in {"win32", "linux"}
    /\ pillow \in BOOLEAN
    /\ tree = NoTree
    /\ last = NotRun
    /\ prev = NoPrev
    /\ WindowInit(FALSE)

FaviconNext ==
    \/ \E f \in FaviconSources, chosen \in BOOLEAN : select_source_file(f, chosen)
    \/ \E c \in TypedChars : key_press(c)
    \/ key_release
    \/ \E chosen \in BOOLEAN, fail_at \in FailPoints : generate(chosen, fail_at)

FaviconSpec == FaviconInit /\ [][FaviconNext]_vars

----------------------------------------------------------------------------
(* The two reconcilers side by side: one folder with no children, given to *)
(* the command line tool in relative mode and to the folder tab of the     *)
(* window with the checkbox clear.                                         *)

\* a desktop.ini left by an earlier run, made read-only since
LockedIni == [exists |-> TRUE, content |-> IniText(<<"old.ico">>), attrs |-> {"s", "h", "r"}]
WriteFailed == [NoFault EXCEPT !.write = "err"]

PairDirs ==
    [ico : IcoFiles, png : {"none", "ok", "bad_open"}, ini : {NoIni, LockedIni},
     sys : {FALSE}, env : {NoFault, WriteDenied, WriteFailed}]

PairInit ==
    /\ platform = "win32"
    /\ pillow = TRUE
    /\ tree \in [root : PairDirs, kids : {<<>>}, listable : {TRUE}]
    /\ last = NotRun
    /\ prev = NoPrev
    /\ WindowInit(FALSE)

PairNext ==
    \/ main(Argv(<<Drive, "icons">>, FALSE, FALSE))
    \/ \E chosen \in BOOLEAN : select_folder(<<Drive, "icons">>, chosen, FALSE)

PairSpec == PairInit /\ [][PairNext]_vars

----------------------------------------------------------------------------
(* Vocabulary of the properties *)

\* the widths embedded in a folder.ico file
Widths(ico) == IF ico.readable THEN { ico.frames[i][1] : i \in 1..Len(ico.frames) } ELSE {}
RequiredWidths == {16, 32, 48, 256}
FullWidths == {16, 32, 48, 64, 128, 256}
Complete(ico) == ico.exists /\ RequiredWidths \subseteq Widths(ico)
\* "[.ShellClassInfo]\nIconResource=<ref>,0\n"
ExpectedIni(ref) == <<"[.ShellClassInfo]\n", "IconResource=", ref, ",0\n">>

\* the reconciles (process_single_folder calls) of the last run
Attempts == 1..Len(last.attempts)
\* the folder of an attempt as it is now
DirNow(a) == IF a.node = 0 THEN tree.root ELSE tree.kids[a.node].d
\* the resolved absolute path of the folder of an attempt
AbsDir(a) == IF a.node = 0 THEN TargetAbs ELSE Append(TargetAbs, KidNames[a.node])

Made(a, op) == \E j \in 1..Len(a.log) : a.log[j].op = op
MadeOk(a, op) == \E j \in 1..Len(a.log) : a.log[j].op = op /\ a.log[j].out \notin Raises
Raised(a) == \E j \in 1..Len(a.log) : a.log[j].out \in Raises
Wrote(a) == MadeOk(a, "write desktop.ini")
AttribOps == {"attrib -s -h -r desktop.ini", "attrib +s folder", "attrib +s +h desktop.ini"}
ConvertOps == {"open folder.png", "save folder.ico"}
NoIconSource == Failure(<<"No folder.ico or folder.png found">>)

----------------------------------------------------------------------------
(* C1: a folder whose folder.ico embeds all of 16, 32, 48 and 256 is never *)
(* regenerated: the reconcile makes no imaging call and folder.ico is the  *)
(* file it was, with or without a folder.png.                              *)
C1_CompleteIcoNeverRegenerated ==
    \A i \in Attempts :
        LET a == last.attempts[i]
        IN  Complete(a.pre.ico) =>
                /\ \A j \in 1..Len(a.log) : a.log[j].op \notin ConvertOps
                /\ DirNow(a).ico = a.pre.ico

C1_Witness ==
    \E i \in Attempts :
        LET a == last.attempts[i]
        IN  /\ Complete(a.pre.ico)
            /\ a.pre.png = "ok"
            /\ a.result = True

----------------------------------------------------------------------------
(* C2 as stated: every folder with a folder.png and no folder.ico ends     *)
(* with a folder.ico of exactly the six widths, a desktop.ini naming       *)
(* folder.ico (relative mode) and the result True.                         *)
C2_PngOnlyAlwaysSucceeds ==
    \A i \in Attempts :
        LET a == last.attempts[i]
        IN  (~a.pre.ico.exists /\ a.pre.png # "none") =>
                /\ Widths(DirNow(a).ico) = FullWidths
                /\ ~last.absolute =>
                       DirNow(a).ini.content = ExpectedIni(<<"folder.ico">>)
                /\ a.result = True

(* C2 amended: when the imaging library converts folder.png without an     *)
(* error, folder.ico embeds exactly the six widths; and when, further,     *)
(* neither the desktop.ini write nor an attrib call raises, desktop.ini    *)
(* names folder.ico (relative mode) and the result is True.                *)
C2_PngOnlyConverted ==
    \A i \in Attempts :
        LET a == last.attempts[i]
        IN  (~a.pre.ico.exists /\ a.pre.png = "ok") =>
                /\ DirNow(a).ico.exists
                /\ Widths(DirNow(a).ico) = FullWidths
                /\ ~Raised(a) =>
                       /\ a.result = True
                       /\ DirNow(a).ini.exists
                       /\ ~last.absolute =>
                              DirNow(a).ini.content = ExpectedIni(<<"folder.ico">>)

C2_Witness ==
    \E i \in Attempts :
        LET a == last.attempts[i]
        IN  /\ ~a.pre.ico.exists
            /\ a.pre.png = "ok"
            /\ ~last.absolute
            /\ a.result = True
            /\ Widths(DirNow(a).ico) = {16, 32, 48, 64, 128, 256}

----------------------------------------------------------------------------
(* C3: a folder with neither folder.ico nor folder.png gets the result     *)
(* "No folder.ico or folder.png found" and nothing is written or called:   *)
(* the folder is as it was.                                                *)
C3_NoIconSourceWritesNothing ==
    \A i \in Attempts :
        LET a == last.attempts[i]
        IN  (~a.pre.ico.exists /\ a.pre.png = "none") =>
                /\ a.result = NoIconSource
                /\ a.ico_path = None
                /\ a.log = <<>>
                /\ DirNow(a) = a.pre

C3_Witness ==
    \E i \in Attempts :
        LET a == last.attempts[i]
        IN  /\ ~a.pre.ico.exists
            /\ a.pre.png = "none"
            /\ a.pre.ini.exists
            /\ a.result = NoIconSource

----------------------------------------------------------------------------
(* C4: two runs in succession on a target whose folder.ico was complete,   *)
(* with the same reference mode: desktop.ini after the second run is what  *)
(* it was after the first, and folder.ico is the file it was before both.  *)
C4_Idempotent ==
    (/\ prev.ran /\ prev.attempted /\ Complete(prev.ico)
     /\ last.attempts # <<>> /\ last.absolute = prev.absolute) =>
        LET a == last.attempts[1]
        IN  /\ tree.root.ini.exists = a.pre.ini.exists
            /\ tree.root.ini.content = a.pre.ini.content
            /\ a.pre.ico = prev.ico
            /\ tree.root.ico = prev.ico

C4_Witness ==
    /\ prev.ran /\ prev.attempted /\ Complete(prev.ico)
    /\ last.attempts # <<>> /\ last.absolute = prev.absolute
    /\ last.absolute
    /\ last.attempts[1].result = True
    /\ last.attempts[1].pre.ini.exists
    /\ last.attempts[1].pre.ini.content = ExpectedIni(<<Drive, "icons", "folder.ico">>)
    /\ last.attempts[1].pre.png = "ok"

----------------------------------------------------------------------------
(* C5 as stated: a recursive run over N subfolders of which K fail         *)
(* attempts each of the N once and ends with processed = N - K and K       *)
(* errors, each naming its folder.                                         *)
SubDirs == { i \in 1..Len(tree.kids) : tree.kids[i].is_dir }
FailedOf(nodes) == { j \in Attempts : last.attempts[j].node \in nodes
                                      /\ last.attempts[j].result # True }
AttemptedOnce(nodes) ==
    \A n \in nodes : Cardinality({ j \in Attempts : last.attempts[j].node = n }) = 1

C5_CountsSubfoldersOnly ==
    (last.recursive /\ last.attempts # <<>>) =>
        /\ AttemptedOnce(SubDirs)
        /\ last.processed = Cardinality(SubDirs) - Cardinality(FailedOf(SubDirs))
        /\ Len(last.errors) = Cardinality(FailedOf(SubDirs))
        /\ \A j \in FailedOf(SubDirs) :
               \E m \in 1..Len(last.errors) :
                   last.errors[m][1] = KidNames[last.attempts[j].node]

(* C5 amended: the target folder is reconciled and counted too.  A         *)
(* recursive run attempts the target and each of its N subfolders once,    *)
(* wherever the failures fall, and with K failures among these N + 1 ends  *)
(* with processed = N + 1 - K and K errors, in the order of the attempts,  *)
(* each "<name>: <reason>" with the name of the subfolder (for the target, *)
(* the last component of the path given).                                  *)
FolderName(a) == IF a.node = 0 THEN PathName(last.folder_path) ELSE KidNames[a.node]
FailedBefore(j) == Cardinality({ m \in 1..j : last.attempts[m].result # True })

C5_AllAttemptedAndCounted ==
    (last.recursive /\ last.attempts # <<>>) =>
        LET all == SubDirs \cup {0}
        IN  /\ AttemptedOnce(all)
            /\ Len(last.attempts) = Cardinality(all)
            /\ last.processed = Cardinality(all) - Cardinality(FailedOf(all))
            /\ Len(last.errors) = Cardinality(FailedOf(all))
            /\ \A j \in FailedOf(all) :
                   LET a == last.attempts[j]
                   IN  last.errors[FailedBefore(j)] = <<FolderName(a), ": ">> \o a.result.msg

C5_Witness ==
    /\ last.recursive
    /\ Len(last.attempts) = 3
    /\ last.attempts[1].result # True
    /\ last.attempts[2].result # True
    /\ last.attempts[3].result = True
    /\ last.processed = 1
    /\ Len(last.errors) = 2

----------------------------------------------------------------------------
(* C6 as stated: an incomplete folder.ico beside a folder.png is           *)
(* regenerated at the six widths before desktop.ini is written.            *)
Incomplete(ico) == ico.exists /\ ~(RequiredWidths \subseteq Widths(ico))

C6_IncompleteAlwaysRegenerated ==
    \A i \in Attempts :
        LET a == last.attempts[i]
        IN  (Incomplete(a.pre.ico) /\ a.pre.png # "none") =>
                /\ MadeOk(a, "save folder.ico")
                /\ Widths(DirNow(a).ico) = FullWidths

(* C6 amended: the reconcile starts by regenerating from the PNG with the  *)
(* six sizes.  If the imaging library raises, the result is "Failed to     *)
(* regenerate ICO: ..." and desktop.ini is neither written nor touched;    *)
(* otherwise folder.ico embeds exactly the six widths before the first     *)
(* call that writes desktop.ini.                                           *)
C6_RegeneratedBeforeWrite ==
    \A i \in Attempts :
        LET a == last.attempts[i]
        IN  (Incomplete(a.pre.ico) /\ a.pre.png # "none") =>
                /\ a.log # <<>>
                /\ a.log[1].op = "open folder.png"
                /\ \A j \in 1..Len(a.log) :
                       a.log[j].op = "save folder.ico" =>
                           j = 2 /\ [m \in 1..Len(a.log[j].arg) |-> a.log[j].arg[m][1]]
                                    = <<16, 32, 48, 64, 128, 256>>
                /\ IF MadeOk(a, "save folder.ico")
                   THEN /\ Widths(DirNow(a).ico) = FullWidths
                        /\ Len(a.log) > 2
                        /\ a.log[3].op \in {"attrib -s -h -r desktop.ini", "write desktop.ini"}
                   ELSE /\ a.result.ok = FALSE
                        /\ a.result.msg[1] = "Failed to regenerate ICO: "
                        /\ ~Made(a, "write desktop.ini")
                        /\ DirNow(a).ini = a.pre.ini

C6_Witness ==
    \E i \in Attempts :
        LET a == last.attempts[i]
        IN  /\ a.pre.ico.exists
            /\ Widths(a.pre.ico) = {16, 32, 48}
            /\ a.pre.png = "ok"
            /\ a.result = True
            /\ Widths(DirNow(a).ico) = {16, 32, 48, 64, 128, 256}

----------------------------------------------------------------------------
(* C7: an incomplete folder.ico with no folder.png is left as it is and    *)
(* applied: no imaging call is made, and unless the desktop.ini write or   *)
(* an attrib call raises, desktop.ini names that ICO and the result is     *)
(* True.                                                                   *)
C7_IncompleteIcoAccepted ==
    \A i \in Attempts :
        LET a == last.attempts[i]
        IN  (Incomplete(a.pre.ico) /\ a.pre.png = "none") =>
                /\ DirNow(a).ico = a.pre.ico
                /\ \A j \in 1..Len(a.log) : a.log[j].op \notin ConvertOps
                /\ Made(a, "write desktop.ini") \/ Raised(a)
                /\ a.result # True => Raised(a)
                /\ ~Raised(a) =>
                       /\ a.result = True
                       /\ DirNow(a).ini.exists
                       /\ DirNow(a).ini.content =
                              ExpectedIni(IF last.absolute
                                          THEN Append(AbsDir(a), "folder.ico")
                                          ELSE <<"folder.ico">>)

C7_Witness ==
    \E i \in Attempts :
        LET a == last.attempts[i]
        IN  /\ a.pre.ico.exists
            /\ Widths(a.pre.ico) = {32}
            /\ a.pre.png = "none"
            /\ a.result = True
            /\ DirNow(a).ini.content = ExpectedIni(<<"folder.ico">>)

----------------------------------------------------------------------------
(* C8: after every reconcile that returned True, desktop.ini is exactly    *)
(* "[.ShellClassInfo]\nIconResource=<ref>,0\n", <ref> being folder.ico in  *)
(* relative mode and the resolved absolute path of folder.ico in absolute  *)
(* mode, whatever desktop.ini held before.                                 *)
C8_DesktopIniContent ==
    \A i \in Attempts :
        LET a == last.attempts[i]
        IN  a.result = True =>
                /\ DirNow(a).ini.exists
                /\ DirNow(a).ini.content =
                       ExpectedIni(IF last.absolute
                                   THEN Append(AbsDir(a), "folder.ico")
                                   ELSE <<"folder.ico">>)

C8_Witness ==
    \E i \in Attempts :
        LET a == last.attempts[i]
        IN  /\ a.result = True
            /\ last.absolute
            /\ last.folder_path = <<"..", "icons">>
            /\ a.pre.ini.exists
            /\ a.pre.ini.content = ExpectedIni(<<"old.ico">>)
            /\ DirNow(a).ini.content = ExpectedIni(<<Drive, "icons", "folder.ico">>)

----------------------------------------------------------------------------
(* C9: whenever desktop.ini is written, folder.ico exists in that folder   *)
(* at that moment, and the reference written is either the bare name       *)
(* folder.ico or the absolute path of that folder.ico without any ".."     *)
(* component.                                                              *)
WrittenRef(e) == e.arg[3]

C9_ReferenceExistsAndIsClean ==
    \A i \in Attempts :
        LET a == last.attempts[i]
        IN  \A j \in 1..Len(a.log) :
                a.log[j].op = "write desktop.ini" =>
                    /\ a.log[j].ico
                    /\ \/ WrittenRef(a.log[j]) = <<"folder.ico">>
                       \/ /\ IsAbsolute(WrittenRef(a.log[j]))
                          /\ \A m \in 1..Len(WrittenRef(a.log[j])) :
                                 WrittenRef(a.log[j])[m] \notin {"..", "."}
                          /\ WrittenRef(a.log[j]) = Append(AbsDir(a), "folder.ico")

C9_Witness ==
    \E i \in Attempts :
        LET a == last.attempts[i]
        IN  /\ ~a.pre.ico.exists
            /\ last.absolute
            /\ last.folder_path = <<"..", "icons">>
            /\ \E j \in 1..Len(a.log) :
                   /\ a.log[j].op = "write desktop.ini"
                   /\ a.log[j].out = "ok"
                   /\ a.log[j].ico

----------------------------------------------------------------------------
(* C10: the calls of set_folder_icon come in one order: the clearing       *)
(* attrib (made exactly when desktop.ini existed), the write of            *)
(* desktop.ini, attrib +s on the folder, attrib +s +h on desktop.ini.  The *)
(* calls made are a prefix of that sequence, cut short only by a call that *)
(* raised, and all of it when the result is True.                          *)
IsSetIconOp(e) == e.op \in AttribOps \cup {"write desktop.ini"}
SetIconCalls(a) == SelectSeq(a.log, IsSetIconOp)
OpsOf(es) == [j \in 1..Len(es) |-> es[j].op]
FixedOrder(had_ini) ==
    (IF had_ini THEN <<"attrib -s -h -r desktop.ini">> ELSE <<>>)
    \o <<"write desktop.ini", "attrib +s folder", "attrib +s +h desktop.ini">>
IsPrefix(s, t) == Len(s) <= Len(t) /\ s = SubSeq(t, 1, Len(s))

C10_CallOrder ==
    \A i \in Attempts :
        LET a     == last.attempts[i]
            calls == SetIconCalls(a)
            order == FixedOrder(a.pre.ini.exists)
        IN  /\ IsPrefix(OpsOf(calls), order)
            /\ calls # <<>> => calls = SubSeq(a.log, Len(a.log) - Len(calls) + 1, Len(a.log))
            /\ (calls # <<>> /\ Len(calls) < Len(order)) => calls[Len(calls)].out \in Raises
            /\ a.result = True => OpsOf(calls) = order
            /\ ~a.pre.ini.exists => ~Made(a, "attrib -s -h -r desktop.ini")

C10_Witness ==
    \E i \in Attempts :
        LET a == last.attempts[i]
        IN  /\ a.pre.ini.exists
            /\ a.result = True
            /\ OpsOf(a.log) = <<"attrib -s -h -r desktop.ini", "write desktop.ini",
                                "attrib +s folder", "attrib +s +h desktop.ini">>
            /\ a.log[1].out = "rc1"

----------------------------------------------------------------------------
(* C11: the exit codes of the attrib calls do not gate the outcome.  A     *)
(* reconcile whose desktop.ini write succeeded and in which no call raised *)
(* returns True whatever each attrib call exited with; an attrib call that *)
(* raised is the last call made, and the result is then the failure        *)
(* "Permission denied (try running as administrator)" for a                *)
(* PermissionError and the text of the error otherwise.                    *)
C11_ExitCodesDoNotGate ==
    \A i \in Attempts :
        LET a == last.attempts[i]
        IN  /\ (Wrote(a) /\ ~Raised(a)) => a.result = True
            /\ \A j \in 1..Len(a.log) :
                   (a.log[j].op \in AttribOps /\ a.log[j].out \in Raises) =>
                       /\ j = Len(a.log)
                       /\ a.result.ok = FALSE
                       /\ a.ico_path = None
                       /\ a.result.msg =
                              IF a.log[j].out = "perm"
                              THEN <<"Permission denied (try running as administrator)">>
                              ELSE <<"[WinError 2] The system cannot find the file specified">>

C11_Witness ==
    \E i \in Attempts :
        LET a == last.attempts[i]
        IN  /\ a.result = True
            /\ Len(a.log) = 4
            /\ a.log[1].op = "attrib -s -h -r desktop.ini" /\ a.log[1].out = "rc1"
            /\ a.log[2].op = "write desktop.ini" /\ a.log[2].out = "ok"
            /\ a.log[3].op = "attrib +s folder" /\ a.log[3].out = "rc1"
            /\ a.log[4].op = "attrib +s +h desktop.ini" /\ a.log[4].out = "rc1"

----------------------------------------------------------------------------
(* C12: attrib that is not on the PATH, or that cannot be run, makes every *)
(* call of it raise (its exit codes are the matter of C11).  The reconcile *)
(* of a folder where attrib is absent never returns True; and whenever an  *)
(* attrib call raised, the reconcile returned a failure with a reason and  *)
(* no icon path, the run went on to its summary and its exit code 1, no    *)
(* error left apply_folder_icon, and the failure is among the errors of    *)
(* the run under the name of the folder.                                   *)
AttribAbsent(d) == \A site \in {"clear", "sys", "hide"} : d.env.attrib[site] = "err"
AttribRaised(a) ==
    \E j \in 1..Len(a.log) : a.log[j].op \in AttribOps /\ a.log[j].out \in Raises

C12_AttribFailureIsAResult ==
    \A i \in Attempts :
        LET a == last.attempts[i]
        IN  /\ AttribAbsent(a.pre) => a.result # True
            /\ AttribRaised(a) =>
                   /\ a.result.ok = FALSE
                   /\ a.result.msg # <<>>
                   /\ a.ico_path = None
                   /\ ~last.raised
                   /\ ~last.ret /\ last.exit = 1
                   /\ last.stdout # <<>>
                   /\ \E m \in 1..Len(last.errors) :
                          last.errors[m] = <<PathName(last.folder_path), ": ">> \o a.result.msg

C12_Witness ==
    \E i \in Attempts :
        LET a == last.attempts[i]
        IN  /\ AttribAbsent(a.pre)
            /\ a.pre.ico.exists
            /\ ~a.pre.ini.exists
            /\ Wrote(a)
            /\ AttribRaised(a)
            /\ a.result = Failure(<<"[WinError 2] The system cannot find the file specified">>)
            /\ Len(last.errors) = 1

----------------------------------------------------------------------------
(* The entry points, the summary and the exit code *)

UnsupportedPlatform == << <<"Error: This tool only works on Windows.">> >>

\* C13: on a platform other than Windows the folder-icon component does
\* nothing from either entry point.  A run of the command line tool ends with
\* the unsupported-platform error before any folder is inspected: no folder
\* is attempted (so no ICO is generated, no desktop.ini written, no attrib
\* called) and the tree is as it was.  The folder tab of the window holds its
\* warning label alone, so no run is ever started from it.
C13_NoOpOffWindows ==
    platform # "win32" =>
        /\ (last.ran /\ last.parsed) =>
               /\ last.stderr = UnsupportedPlatform
               /\ ~last.ret /\ ~last.raised
               /\ last.attempts = <<>> /\ last.processed = 0 /\ last.errors = <<>>
        /\ last.ran => (last.after = last.before /\ tree = last.before)
        /\ gui.tab = [label |-> "This feature is only available on Windows.",
                      widgets |-> FALSE]
        /\ gui.run = NoFolderRun

\* a recursive run off Windows over a target and a subfolder that both hold
\* a folder.png: nothing is touched
C13_Witness ==
    /\ platform = "linux"
    /\ pillow
    /\ last.ran /\ last.parsed /\ last.recursive
    /\ last.folder_path = <<Drive, "icons">>
    /\ last.stderr = UnsupportedPlatform
    /\ last.attempts = <<>>
    /\ tree.root = PngDir("ok")
    /\ tree.kids[2].d = PngDir("ok")
    /\ ~gui.tab.widgets
    /\ ~gui.run.ran

\* the two targets that are not folders: a path that names nothing, and the
\* file that is the first child of the target directory
MissingPath == <<Drive, "nowhere">>
FilePath == <<Drive, "icons", KidNames[1]>>
IsFileIn(t) == Len(t.kids) >= 1 /\ ~t.kids[1].is_dir /\ t.kids[1].name = KidNames[1]

\* C14: when the target path does not exist or is not a directory the run
\* fails with the invalid-target error ("Folder not found" or "Path is not a
\* folder"), no folder is processed, not even a subfolder in recursive mode,
\* and nothing is written; so it is from the command line and from the
\* window.
C14_InvalidTargetRefused ==
    /\ (last.ran /\ last.parsed /\ platform = "win32" /\ pillow
            /\ (\/ last.folder_path = MissingPath
                \/ last.folder_path = FilePath /\ IsFileIn(last.before))) =>
           /\ last.stderr =
                  << <<IF last.folder_path = MissingPath
                       THEN "Error: Folder not found: "
                       ELSE "Error: Path is not a folder: ">> \o last.folder_path >>
           /\ last.stdout = <<>>
           /\ ~last.ret /\ ~last.raised /\ last.exit = 1
           /\ last.attempts = <<>> /\ last.processed = 0 /\ last.errors = <<>>
           /\ last.after = last.before
    /\ (gui.run.ran /\ pillow
            /\ (\/ gui.run.folder_path = MissingPath
                \/ gui.run.folder_path = FilePath /\ IsFileIn(gui.run.before))) =>
           /\ gui.run.box =
                  Box("showerror", "Error",
                      IF gui.run.folder_path = MissingPath
                      THEN << <<"Folder not found: ">> \o MissingPath >>
                      ELSE << <<"Please select a folder, not a file.">> >>)
           /\ ~gui.run.raised
           /\ gui.run.attempts = <<>> /\ gui.run.processed = 0
           /\ gui.run.after = gui.run.before

\* a recursive run on a file, next to a subfolder that holds a folder.png
C14_Witness ==
    /\ platform = "win32" /\ pillow
    /\ last.ran /\ last.parsed /\ last.recursive
    /\ last.folder_path = FilePath
    /\ IsFileIn(last.before)
    /\ last.before.kids[2].is_dir
    /\ last.before.kids[2].d = PngDir("ok")
    /\ last.before.root = PngDir("ok")
    /\ last.stderr = << <<"Error: Path is not a folder: ", Drive, "icons", "alpha">> >>
    /\ last.exit = 1
    /\ tree = last.before

\* every folder the run attempted was reconciled, and the run went to its end
FullSuccess(r) ==
    /\ r.attempts # <<>>
    /\ \A i \in 1..Len(r.attempts) : r.attempts[i].result = True
    /\ ~r.raised

\* C15 as stated: the command line tool exits with 0 exactly when the run
\* was a full success, and with 1 in every other case.
C15_ExitZeroIffFullSuccess ==
    last.ran =>
        /\ last.exit \in {0, 1}
        /\ last.exit = 0 <=> FullSuccess(last)

\* C15: on a command line the parser accepts, the tool exits with 0 exactly
\* when the run was a full success (the target and, in recursive mode, every
\* immediate subfolder were attempted and each was reconciled) and with 1
\* otherwise; a command line the parser rejects exits with 2 and -h with 0,
\* neither attempting any folder.
C15_ExitCode ==
    last.ran =>
        /\ last.parsed => last.exit = (IF FullSuccess(last) THEN 0 ELSE 1)
        /\ ~last.parsed =>
               /\ last.attempts = <<>> /\ last.after = last.before
               /\ \/ last.exit = 0 /\ last.stdout = << <<"usage">> >> /\ last.stderr = <<>>
                  \/ last.exit = 2 /\ last.stderr = << <<"usage">> >> /\ last.stdout = <<>>

\* a recursive run in which the target is reconciled and its subfolder is
\* not: exit 1
C15_Witness ==
    /\ last.ran /\ last.parsed /\ last.recursive
    /\ Len(last.attempts) = 2
    /\ last.attempts[1].result = True
    /\ last.attempts[2].result = Failure(<<"No folder.ico or folder.png found">>)
    /\ last.processed = 1
    /\ last.exit = 1

----------------------------------------------------------------------------
(* The walk *)

\* the nodes a run attempts, in the order it attempts them
NodesOf(attempts) == [j \in 1..Len(attempts) |-> attempts[j].node]

\* the directories among the first n children, in the order of the listing
RECURSIVE DirNodes(_, _)
DirNodes(kids, n) ==
    IF n = 0 THEN <<>>
    ELSE IF kids[n].is_dir THEN Append(DirNodes(kids, n - 1), n)
    ELSE DirNodes(kids, n - 1)

\* C16: a run reconciles the target directory first and then, only when the
\* recursive option is given, each immediate subdirectory once, in the order
\* of the listing; children that are not directories are skipped (never
\* attempted, left as they were), and a directory nested in a subdirectory is
\* never attempted and never changed.
C16_TargetThenImmediateSubfolders ==
    (last.ran /\ last.parsed) =>
        /\ NodesOf(last.attempts) =
               <<0>> \o (IF last.recursive
                         THEN DirNodes(last.before.kids, Len(last.before.kids))
                         ELSE <<>>)
        /\ last.attempts[1].pre = last.before.root
        /\ \A j \in 2..Len(last.attempts) :
               last.attempts[j].pre = last.before.kids[last.attempts[j].node].d
        /\ Len(last.after.kids) = Len(last.before.kids)
        /\ \A i \in 1..Len(last.before.kids) :
               /\ last.after.kids[i].deep = last.before.kids[i].deep
               /\ ~last.before.kids[i].is_dir =>
                      last.after.kids[i] = last.before.kids[i]
               /\ ~last.recursive => last.after.kids[i] = last.before.kids[i]

\* a recursive run over a file and a folder, the folder holding a folder.png
\* and a nested directory with a folder.png of its own: the target and the
\* folder get their icon, the nested directory is as it was
C16_Witness ==
    /\ last.ran /\ last.parsed /\ last.recursive
    /\ Len(last.before.kids) = 2
    /\ ~last.before.kids[1].is_dir
    /\ last.before.kids[2].is_dir
    /\ last.before.kids[2].d = PngDir("ok")
    /\ last.before.kids[2].deep = <<Nested>>
    /\ NodesOf(last.attempts) = <<0, 2>>
    /\ last.attempts[2].result = True
    /\ tree.kids[2].d.ini.exists
    /\ tree.kids[2].deep = <<Nested>>
    /\ ~tree.kids[2].deep[1].d.ini.exists

----------------------------------------------------------------------------
(* The summary *)

\* the number of failures a summary names
Shown(errors) == IF Len(errors) < 5 THEN Len(errors) ELSE 5

\* the summary of the command line run names the failure e (folder name,
\* ": ", reason), and it states both counts
CliNames(e) ==
    \E k \in 1..Len(last.stdout) :
        /\ last.stdout[k][1] \in {"  * ", "Error: "}
        /\ Tail(last.stdout[k]) = e
CliCounts ==
    \E k \in 1..Len(last.stdout) :
        /\ last.stdout[k][1] = "Set icon for "
        /\ Len(last.stdout[k]) = 5
        /\ last.stdout[k][2] = last.processed
        /\ last.stdout[k][4] = Len(last.errors)

\* the same of the message box and the status line that end a run of the window
GuiNames(e) ==
    \E k \in 1..Len(gui.run.box.text) :
        /\ gui.run.box.text[k][1] \notin {"Set icon for ", "", "Errors:", "... and "}
        /\ gui.run.box.text[k] = e
GuiCounts ==
    /\ Len(gui.run.status) = 5
    /\ gui.run.status[1] = "Set "
    /\ gui.run.status[2] = gui.run.processed
    /\ gui.run.status[4] = Len(gui.run.errors)

\* C17 as stated: whenever at least one folder fails, the summary that ends
\* the run lists the count of successes and the count of failures and names,
\* for each of the first 5 failures (all of them when there are at most 5),
\* the folder and the reason.
C17_SummaryListsFailures ==
    /\ (last.ran /\ last.parsed /\ ~last.raised /\ last.errors # <<>>) =>
           /\ CliCounts
           /\ \A i \in 1..Shown(last.errors) : CliNames(last.errors[i])
    /\ (gui.run.ran /\ ~gui.run.raised /\ gui.run.errors # <<>>) =>
           /\ GuiCounts
           /\ \A i \in 1..Shown(gui.run.errors) : GuiNames(gui.run.errors[i])

\* the run that shows it: a recursive run over a target and a subfolder that
\* both lack folder.ico and folder.png ends with two failures, of which the
\* summary names the first alone, with no count
C17_Witness ==
    /\ last.ran /\ last.parsed /\ last.recursive
    /\ last.processed = 0
    /\ Len(last.errors) = 2
    /\ last.errors[2] = <<"beta", ": ", "No folder.ico or folder.png found">>
    /\ last.stdout = << <<"">>, <<"No folders were processed.">>,
                        <<"Error: ", "icons", ": ",
                          "No folder.ico or folder.png found">> >>

----------------------------------------------------------------------------
(* Fatal and per-folder failures *)

MissingPillow ==
    << <<"Error: Pillow is not installed. Please run: pip install Pillow">> >>

\* the run was refused at its start: non-zero status, the error on stderr,
\* nothing raised and no folder processed
RefusedCleanly(msg) ==
    /\ last.exit # 0
    /\ last.stderr = msg
    /\ ~last.raised
    /\ last.attempts = <<>> /\ last.processed = 0
    /\ last.after = last.before

\* C18 as stated: a run on an unsupported platform, or without the imaging
\* library, exits cleanly with a non-zero status and an error on stderr,
\* raising nothing and processing no folder; every other failure is a
\* per-folder failure value and ends no run: nothing is raised, each folder
\* attempted has its result, and the run ends with its summary or with the
\* invalid-target error.
C18_NoFailureIsFatal ==
    (last.ran /\ last.parsed) =>
        /\ platform # "win32" => RefusedCleanly(UnsupportedPlatform)
        /\ (platform = "win32" /\ ~pillow) => RefusedCleanly(MissingPillow)
        /\ (platform = "win32" /\ pillow) =>
               /\ ~last.raised
               /\ last.exit \in {0, 1}
               /\ \A i \in 1..Len(last.attempts) :
                      \/ last.attempts[i].result = True
                      \/ /\ last.attempts[i].result.ok = FALSE
                         /\ last.attempts[i].result.msg # <<>>
               /\ last.attempts # <<>> => last.stdout # <<>>
               /\ last.attempts = <<>> => last.stderr # <<>>

\* the run that shows it: a recursive run on a target whose entries may not
\* be listed.  The target itself is reconciled, then path.iterdir() raises
\* PermissionError, which nothing catches: a traceback, status 1, no summary,
\* and the subfolder never attempted.
C18_Witness ==
    /\ platform = "win32" /\ pillow
    /\ last.ran /\ last.parsed /\ last.recursive
    /\ ~last.before.listable
    /\ last.raised
    /\ last.exit = 1
    /\ last.stderr = << <<"Traceback (most recent call last):">>,
                        <<"PermissionError: [WinError 5] Access is denied">> >>
    /\ last.stdout = <<>>
    /\ Len(last.attempts) = 1
    /\ last.attempts[1].result = True
    /\ last.before.kids[2].d = PngDir("ok")
    /\ last.after.kids[2].d = PngDir("ok")

----------------------------------------------------------------------------
(* Batch conversion *)

IsOpen(s) == s.op = "open"
Opened(log) == SelectSeq(log, IsOpen)
FailedSources(sources) == { i \in 1..Len(sources) : sources[i].image # "ok" }

\* C19: in a batch conversion a source that cannot be decoded or encoded
\* does not stop the others: every source of the list is attempted exactly
\* once, in the order of the list, and when the batch is over succeeded +
\* failed is the number of sources (failed counting exactly the sources
\* that could not be converted).
C19_BatchAttemptsEverySource ==
    (icotab.run.ran /\ icotab.run.mode = "batch" /\ icotab.run.sources # <<>>) =>
        LET run == icotab.run
        IN  /\ Len(Opened(run.log)) = Len(run.sources)
            /\ \A i \in 1..Len(run.sources) :
                   /\ Opened(run.log)[i].i = i
                   /\ Opened(run.log)[i].source = run.sources[i]
            /\ run.success + run.failed = Len(run.sources)
            /\ run.failed = Cardinality(FailedSources(run.sources))
            /\ \A i \in 1..Len(run.sources) :
                   run.sources[i].image = "ok" =>
                       <<run.sources[i].stem, ".ico">> \in Names(disk)

\* a batch of two whose first source cannot be opened: the second is
\* converted all the same
C19_Witness ==
    /\ icotab.run.ran /\ icotab.run.mode = "batch"
    /\ icotab.run.sources = <<Source("b", ".png", "bad_open"), Source("a", ".png", "ok")>>
    /\ icotab.run.success = 1
    /\ icotab.run.failed = 1
    /\ Len(icotab.run.log) = 3
    /\ icotab.run.log[2] = Step("open", 2, Source("a", ".png", "ok"), "ok")
    /\ icotab.run.status = <<1, " OK, ", 1, " failed">>
    /\ <<"a", ".ico">> \in Names(disk)

----------------------------------------------------------------------------
(* The favicon set *)

\* the generation went to its end
Generated(run) == run.ran /\ run.status # <<>> /\ run.status[1] = "Generated "

FaviconBases ==
    <<"favicon.ico", "favicon-16x16.png", "favicon-32x32.png",
      "android-chrome-192x192.png", "android-chrome-512x512.png",
      "apple-touch-icon.png", "manifest.json", "favicon.html">>

AllPrefixed(run) ==
    \A i \in 1..Len(run.generated_files) :
        /\ SubSeq(run.generated_files[i], 1, Len(run.prefix)) = run.prefix
        /\ Len(run.generated_files[i]) = Len(run.prefix) + 1
        /\ \E b \in 1..Len(FaviconBases) :
               run.generated_files[i][Len(run.prefix) + 1] = FaviconBases[b]

Distinct(names) == \A i, j \in 1..Len(names) : names[i] = names[j] => i = j

\* C20 as stated: a successful generation with prefix p writes exactly 9
\* files into the output directory, each named p followed by its base name.
C20_NineFilesPrefixed ==
    Generated(favtab.run) =>
        /\ Len(favtab.run.generated_files) = 9
        /\ Distinct(favtab.run.generated_files)
        /\ AllPrefixed(favtab.run)

\* C20: a successful generation with prefix p writes exactly 8 files into
\* the output directory (one ICO, four resized PNGs, the apple-touch PNG,
\* the manifest and the HTML snippet), each named p followed by its base
\* name, and no other file of the directory is added or removed.
C20_EightFilesPrefixed ==
    Generated(favtab.run) =>
        LET run == favtab.run
        IN  /\ Len(run.generated_files) = 8
            /\ Distinct(run.generated_files)
            /\ AllPrefixed(run)
            /\ run.generated_files =
                   [i \in 1..Len(FaviconBases) |-> Append(run.prefix, FaviconBases[i])]
            /\ run.after = run.before \cup { run.generated_files[i] : i \in 1..8 }
            /\ run.after \subseteq Names(disk)
            /\ run.status = <<"Generated ", 8, " files!">>

\* a generation with the prefix "s-" into an empty directory
C20_Witness ==
    /\ Generated(favtab.run)
    /\ favtab.run.prefix = <<"s", "-">>
    /\ favtab.run.before = {}
    /\ Names(disk) =
           { <<"s", "-", "favicon.ico">>, <<"s", "-", "favicon-16x16.png">>,
             <<"s", "-", "favicon-32x32.png">>,
             <<"s", "-", "android-chrome-192x192.png">>,
             <<"s", "-", "android-chrome-512x512.png">>,
             <<"s", "-", "apple-touch-icon.png">>, <<"s", "-", "manifest.json">>,
             <<"s", "-", "favicon.html">> }
    /\ Cardinality(disk) = 8

\* the file of that name in the output directory
FileNamed(name) == CHOOSE f \in disk : f.name = name
Range(seq) == { seq[i] : i \in 1..Len(seq) }

\* C21: after a successful generation with prefix p the manifest's
\* icons[0].src is "/" + p + "android-chrome-192x192.png" and its
\* icons[1].src is "/" + p + "android-chrome-512x512.png", and every
\* reference of the manifest and of the HTML snippet is "/" followed by the
\* name of a file the same run generated, a name that starts with p.
C21_ReferencesNameGeneratedFiles ==
    Generated(favtab.run) =>
        LET p == favtab.run.prefix
            m == FileNamed(Append(p, "manifest.json"))
            h == FileNamed(Append(p, "favicon.html"))
        IN  /\ Append(p, "manifest.json") \in Names(disk)
            /\ Append(p, "favicon.html") \in Names(disk)
            /\ m.kind = "json" /\ h.kind = "html"
            /\ Len(m.data) = 2
            /\ m.data[1] = <<"/">> \o p \o <<"android-chrome-192x192.png">>
            /\ m.data[2] = <<"/">> \o p \o <<"android-chrome-512x512.png">>
            /\ Len(h.data) = 5
            /\ favtab.last_html_snippet = h.data
            /\ \A r \in Range(m.data) \cup Range(h.data) :
                   /\ Head(r) = "/"
                   /\ Tail(r) \in Range(favtab.run.generated_files)
                   /\ SubSeq(Tail(r), 1, Len(p)) = p

\* a generation with the prefix "s-": the manifest names the two
\* android-chrome files under that prefix
C21_Witness ==
    /\ Generated(favtab.run)
    /\ favtab.run.prefix = <<"s", "-">>
    /\ <<"s", "-", "manifest.json">> \in Names(disk)
    /\ FileNamed(<<"s", "-", "manifest.json">>).data =
           << <<"/", "s", "-", "android-chrome-192x192.png">>,
              <<"/", "s", "-", "android-chrome-512x512.png">> >>
    /\ <<"/", "s", "-", "favicon.ico">> \in Range(favtab.last_html_snippet)

\* the characters of the prefix of a generated file name (all but the base name)
PrefixOf(name) == SubSeq(name, 1, Len(name) - 1)
WroteFiles(run) == run.ran /\ run.generated_files # <<>>

\* C22 as stated: whatever the edits of the prefix field before Generate
\* Favicon Set, the prefix the files are named with holds no character
\* outside [a-zA-Z0-9-_] ("My Site!" is filtered to "MySite"), the filter
\* having run before any file is written.
C22_PrefixFilteredBeforeWrite ==
    /\ validate_prefix(<<"M", "y", " ", "S", "i", "t", "e", "!">>)
           = <<"M", "y", "S", "i", "t", "e">>
    /\ WroteFiles(favtab.run) =>
           /\ \A i \in 1..Len(favtab.run.prefix) :
                  favtab.run.prefix[i] \in LowerCase \cup UpperCase \cup Digits \cup {"-", "_"}
           /\ \A n \in Range(favtab.run.generated_files) :
                  \A i \in 1..Len(PrefixOf(n)) :
                      PrefixOf(n)[i] \in LowerCase \cup UpperCase \cup Digits \cup {"-", "_"}

\* the run that shows it: "!" is in the field, its key not yet released,
\* when the button is clicked; the files are named "!favicon.ico", ...
C22_Witness ==
    /\ Generated(favtab.run)
    /\ favtab.run.prefix = <<"!">>
    /\ favtab.prefix_entry = <<"!">>
    /\ <<"!", "favicon.ico">> \in Names(disk)
    /\ <<"!", "manifest.json">> \in Names(disk)

\* C23 as stated: the prefix the favicon set is emitted under is restricted
\* to [a-z0-9-_]: no generated file name carries a prefix character outside
\* that class.
C23_PrefixLowerCaseClass ==
    WroteFiles(favtab.run) =>
        \A n \in Range(favtab.run.generated_files) :
            \A i \in 1..Len(PrefixOf(n)) :
                PrefixOf(n)[i] \in LowerCase \cup Digits \cup {"-", "_"}

\* the run that shows it: "A" typed, its key released (validate_prefix keeps
\* it), then the set is generated under "A"
C23_Witness ==
    /\ Generated(favtab.run)
    /\ favtab.run.prefix = <<"A">>
    /\ validate_prefix(<<"A">>) = <<"A">>
    /\ favtab.run.generated_files[1] = <<"A", "favicon.ico">>
    /\ <<"A", "favicon.ico">> \in Names(disk)

----------------------------------------------------------------------------
(* Failures of the conversion, the pair returned, unreadable icons *)

\* the conversion the attempt made failed: Image.open or img.save raised
ConversionFailed(a) ==
    \E j \in 1..Len(a.log) : a.log[j].op \in ConvertOps /\ a.log[j].out = "err"

\* the folder needs folder.ico made from a folder.png that cannot be converted
NeedsBadPng(d) ==
    /\ d.png \in {"bad_open", "bad_save"}
    /\ ~d.ico.exists \/ Incomplete(d.ico)

\* C24: when regenerating or generating folder.ico from folder.png fails,
\* the reconcile returns the failure "Failed to regenerate ICO: <reason>"
\* (folder.ico was there) or "Failed to convert PNG: <reason>" (it was
\* not), the reason being the error of the imaging library, with no icon
\* path; in that run desktop.ini is not written and no attrib call is made.
C24_ConversionFailureStopsTheRun ==
    \A i \in Attempts :
        LET a == last.attempts[i]
        IN  /\ NeedsBadPng(a.pre) => ConversionFailed(a)
            /\ ConversionFailed(a) =>
                   /\ a.result =
                          Failure(<<IF a.pre.ico.exists THEN "Failed to regenerate ICO: "
                                    ELSE "Failed to convert PNG: ",
                                    IF a.pre.png = "bad_save"
                                    THEN "broken data stream when reading image file"
                                    ELSE "cannot identify image file">>)
                   /\ a.ico_path = None
                   /\ \A j \in 1..Len(a.log) : a.log[j].op \in ConvertOps
                   /\ ~Made(a, "write desktop.ini")
                   /\ DirNow(a).ini = a.pre.ini
                   /\ DirNow(a).sys = a.pre.sys
                   /\ last.errors = << <<PathName(last.folder_path), ": ">> \o a.result.msg >>

\* an incomplete folder.ico next to a folder.png that cannot be saved as ICO
C24_Witness ==
    /\ Len(last.attempts) = 1
    /\ last.attempts[1].pre.ico.exists
    /\ Widths(last.attempts[1].pre.ico) = {16, 32, 48}
    /\ last.attempts[1].pre.png = "bad_save"
    /\ last.attempts[1].pre.ini.exists
    /\ last.attempts[1].result =
           Failure(<<"Failed to regenerate ICO: ",
                     "broken data stream when reading image file">>)
    /\ Len(last.attempts[1].log) = 2
    /\ tree.root.ini = last.attempts[1].pre.ini

\* what a reconcile returned and left: the result, the icon path, the widths
\* of folder.ico and the text of desktop.ini
Left(o) == <<o.result, o.ico_path, Widths(o.d.ico), o.d.ini.content>>

\* C25 as stated: the window and the command line tool (relative mode)
\* implement the same reconciler.  From the same folder state their
\* process_single_folder return the same outcome and leave the same
\* folder.ico widths and the same desktop.ini content: so it is of the two
\* functions applied to the folder as it is now, and of the last run of each
\* entry point when both started from the same folder.
C25_SameReconciler ==
    /\ Left(Gui_process_single_folder(tree.root, <<Drive, "icons">>))
           = Left(process_single_folder(tree.root, <<Drive, "icons">>, FALSE))
    /\ (last.ran /\ gui.run.ran /\ last.before.root = gui.run.before.root) =>
           /\ gui.run.attempts[1].result = last.attempts[1].result
           /\ gui.run.attempts[1].ico_path = last.attempts[1].ico_path
           /\ Widths(gui.run.after.root.ico) = Widths(last.after.root.ico)
           /\ gui.run.after.root.ini.content = last.after.root.ini.content

\* the runs that show it: both entry points started from a folder holding a
\* folder.ico with the widths 16, 32, 48 and a good folder.png; the window
\* left the icon as it was, the command line tool regenerated it
C25_Witness ==
    /\ last.ran /\ gui.run.ran
    /\ last.before.root = gui.run.before.root
    /\ Widths(gui.run.before.root.ico) = {16, 32, 48}
    /\ gui.run.before.root.png = "ok"
    /\ gui.run.attempts[1].result = True
    /\ last.attempts[1].result = True
    /\ Widths(gui.run.after.root.ico) = {16, 32, 48}
    /\ Widths(last.after.root.ico) = {16, 32, 48, 64, 128, 256}
    /\ gui.run.attempts[1].log # last.attempts[1].log

\* the attempts of the last run that succeeded
Succeeded == { i \in Attempts : last.attempts[i].result = True }

Unreadable(ico) == ico.exists /\ ~ico.readable
IniNames(a) ==
    /\ DirNow(a).ini.exists
    /\ DirNow(a).ini.content =
           ExpectedIni(IF last.absolute THEN Append(AbsDir(a), "folder.ico")
                       ELSE <<"folder.ico">>)

\* C27 as stated: a folder.ico whose widths cannot be read is taken for an
\* incomplete ICO, not for an error: it is regenerated when folder.png
\* exists, and when there is no folder.png desktop.ini names the unreadable
\* ICO and the reconcile reports success.
C27_UnreadableIcoIsIncomplete ==
    \A i \in Attempts :
        LET a == last.attempts[i]
        IN  Unreadable(a.pre.ico) =>
                /\ a.pre.png # "none" =>
                       /\ MadeOk(a, "save folder.ico")
                       /\ Widths(DirNow(a).ico) = FullWidths
                /\ a.pre.png = "none" =>
                       /\ DirNow(a).ico = a.pre.ico
                       /\ a.result = True
                       /\ IniNames(a)

\* C27: a folder.ico whose widths cannot be read is taken for an incomplete
\* ICO, not for an error.  When folder.png exists the reconcile starts by
\* regenerating the ICO from it: with a PNG the imaging library converts,
\* folder.ico then embeds the six widths; with one it cannot convert, the
\* result is "Failed to regenerate ICO: <reason>".  When there is no
\* folder.png no imaging call is made, the ICO is left as it is and, unless
\* the desktop.ini write or an attrib call raises, desktop.ini names it and
\* the result is True.  No result reports the unreadable ICO itself.
C27_UnreadableIcoRegeneratedOrApplied ==
    \A i \in Attempts :
        LET a == last.attempts[i]
        IN  Unreadable(a.pre.ico) =>
                /\ a.pre.png # "none" =>
                       /\ a.log # <<>> /\ a.log[1].op = "open folder.png"
                       /\ a.pre.png = "ok" =>
                              /\ MadeOk(a, "save folder.ico")
                              /\ Widths(DirNow(a).ico) = FullWidths
                              /\ ~Raised(a) => a.result = True /\ IniNames(a)
                       /\ a.pre.png # "ok" =>
                              /\ a.result.ok = FALSE
                              /\ a.result.msg[1] = "Failed to regenerate ICO: "
                              /\ ~Made(a, "write desktop.ini")
                /\ a.pre.png = "none" =>
                       /\ \A j \in 1..Len(a.log) : a.log[j].op \notin ConvertOps
                       /\ DirNow(a).ico = a.pre.ico
                       /\ ~Raised(a) => a.result = True /\ IniNames(a)
                       /\ Raised(a) =>
                              /\ a.result.ok = FALSE
                              /\ a.result.msg \in
                                     { <<"Permission denied (try running as administrator)">>,
                                       <<"[Errno 28] No space left on device">>,
                                       <<"[WinError 2] The system cannot find the file specified">> }

\* an unreadable folder.ico next to a good folder.png: regenerated and applied
C27_Witness ==
    /\ Len(last.attempts) = 1
    /\ last.attempts[1].pre.ico = BrokenIco
    /\ last.attempts[1].pre.png = "ok"
    /\ last.attempts[1].log[1].op = "open folder.png"
    /\ last.attempts[1].result = True
    /\ Widths(tree.root.ico) = {16, 32, 48, 64, 128, 256}
    /\ tree.root.ini.content = ExpectedIni(<<"folder.ico">>)


----------------------------------------------------------------------------
(* An error of the desktop.ini write.                                      *)

\* the last run of the command line tool and of the folder tab
BothRuns == {last, gui.run}
WriteRaised(a) ==
    \E j \in 1..Len(a.log) : a.log[j].op = "write desktop.ini" /\ a.log[j].out \in Raises

\* C28: when the desktop.ini write raises, set_folder_icon (of the command
\* line tool and of the window) returns a failure string, "Permission denied
\* (try running as administrator)" for a PermissionError and the text of the
\* error otherwise; neither "attrib +s <folder>" nor "attrib +s +h
\* desktop.ini" is issued, the folder is not marked system, and a
\* desktop.ini that was there before stays without the system, hidden and
\* read-only attributes the call before the write cleared.
C28_WriteErrorStopsAndLeavesCleared ==
    \A run \in BothRuns :
        run.ran =>
            \A i \in 1..Len(run.attempts) :
                LET a == run.attempts[i]
                IN  WriteRaised(a) =>
                        /\ a.result.ok = FALSE
                        /\ a.result.msg \in
                               { <<"Permission denied (try running as administrator)">>,
                                 <<"[Errno 28] No space left on device">> }
                        /\ a.ico_path = <<>>
                        /\ ~Made(a, "attrib +s folder")
                        /\ ~Made(a, "attrib +s +h desktop.ini")
                        /\ run.after.root.sys = a.pre.sys
                        /\ a.pre.ini.exists =>
                               /\ a.log[Len(a.log) - 1].op = "attrib -s -h -r desktop.ini"
                               /\ a.log[Len(a.log) - 1].out = "rc0"
                               /\ run.after.root.ini.attrs = {}
                        /\ ~a.pre.ini.exists => ~Made(a, "attrib -s -h -r desktop.ini")

\* a read-only, hidden desktop.ini and a write that is denied: the command
\* line tool reports the failure and leaves the file with no attribute, and
\* the window, run on the folder as it was left, finds the file so and
\* reports the same failure
C28_Witness ==
    /\ last.ran /\ gui.run.ran
    /\ last.before.root.ini.attrs = {"s", "h", "r"}
    /\ last.before.root.env.write = "perm"
    /\ last.attempts[1].result = Failure(<<"Permission denied (try running as administrator)">>)
    /\ last.after.root.ini.attrs = {}
    /\ gui.run.before.root = last.after.root
    /\ gui.run.attempts[1].result = Failure(<<"Permission denied (try running as administrator)">>)
    /\ Len(gui.run.attempts[1].log) = 2
    /\ gui.run.after.root.ini = [exists |-> TRUE, content |-> IniText(<<"old.ico">>), attrs |-> {}]
    /\ tree.root.ini.attrs = {}


----------------------------------------------------------------------------
(* The selection of the PNG-to-ICO tab.                                    *)

\* what is selected and whether the Convert button can be pressed
Selection == <<icotab.ico_selected_file, icotab.batch_files, icotab.convert_btn>>

C29_Exclusive ==
    /\ ~(icotab.ico_selected_file # <<>> /\ icotab.batch_files # <<>>)
    /\ icotab.convert_btn = "normal" =>
           (icotab.ico_selected_file # <<>> \/ icotab.batch_files # <<>>)
    /\ icotab.convert_btn \in {"normal", "disabled"}

C29_SelectionStep ==
    /\ icotab'.sel \in {"rejected", "cancelled"} => Selection' = Selection
    /\ (icotab'.sel = "single" /\ Selection' # Selection) =>
           /\ Len(icotab'.ico_selected_file) = 1
           /\ icotab'.ico_selected_file[1].suffix \in {".png", ".PNG"}
           /\ icotab'.batch_files = <<>>
    /\ (icotab'.sel = "batch" /\ Selection' # Selection) =>
           /\ icotab'.batch_files # <<>>
           /\ icotab'.ico_selected_file = <<>>

\* C29: after any sequence of selection events of the tab (a PNG selected
\* or dropped, a batch selected, a file that is not a PNG refused, a dialog
\* cancelled) and of conversions between them, ico_selected_file is set and
\* batch_files is non-empty never hold together, and the Convert button is
\* enabled only when one of the two is set; a step that ends in a refused
\* or a cancelled selection leaves the two and the button as they were, and
\* one that changes them leaves a single PNG or a batch, not both.
C29_SingleAndBatchExclusive == []C29_Exclusive /\ [][C29_SelectionStep]_vars

\* a batch of two was selected, then a text file given to the tab: it was
\* refused, the batch is still selected and the button enabled
C29_Witness ==
    /\ icotab.sel = "rejected"
    /\ Len(icotab.batch_files) = 2
    /\ icotab.ico_selected_file = <<>>
    /\ icotab.convert_btn = "normal"
    /\ icotab.run.box.text = << <<"Please select a PNG file.">> >>
====
